---- MODULE Spec2Model ----
(***************************************************************************)
(* State-machine model of the reactive primitives of this repository:      *)
(*   - WritableSignalImpl (set / update / mutate / asReadonly / signal)    *)
(*     together with the postSignalSetFn hook, and                         *)
(*   - runInInjectionContext / assertInInjectionContext.                   *)
(* ReactiveNode (./graph), defaultEquals (./api) and the injector slot     *)
(* setters are not part of the sources at hand; they are modelled from the *)
(* written specification and marked as such in the model map.              *)
(***************************************************************************)
EXTENDS Integers, Sequences, FiniteSets, TLC

\* ------------------------------------------------------------------ bounds
\* payloads of a value are 0..MaxData
MaxData == 1
\* valueVersion is explored up to MaxVersion
MaxVersion == 3
\* nesting depth of runInInjectionContext calls that is explored
MaxDepth == 2
\* a container starts with at most MaxViews dehydrated views
MaxViews == 2
\* an array or object bound to ngClass has at most MaxKeys entries
MaxKeys == 2
\* the signals of the reactive graph hold numbers 0..MaxSig
MaxSig == 2
\* the global epoch, one per effective write, is explored up to MaxEpoch
MaxEpoch == 2

\* ------------------------------------------------------------- value domain
\* A value is an object: an identity and a payload that can be mutated in place.
Ids == {"o1", "o2"}
Data == 0..MaxData
Values == [id : Ids, data : Data]
NoValue == [id |-> "none", data |-> -1]
OtherId(i) == IF i = "o1" THEN "o2" ELSE "o1"

\* Reactive consumers that may read the signal.
Computeds == {"c1"}
Effects == {"e1"}
Consumers == Computeds \cup Effects
None == "none"

\* equality functions handed to signal(initial, {equal})
EqualFns == {"default", "deep", "never"}
\* updater functions handed to update()
Updaters == {"same", "clone", "next", "throw"}
\* mutator functions handed to mutate()
Mutators == {"touch", "bump", "throw"}
\* what can be installed as postSignalSetFn
Hooks == {"null", "flushEffects"}

VARIABLES
  value,             \* WritableSignalImpl.value
  valueVersion,      \* ReactiveNode.valueVersion of the signal
  equal,             \* WritableSignalImpl.equal
  readonlySignal,    \* WritableSignalImpl.readonlySignal
  postSignalSetFn,   \* module-level hook
  activeConsumer,    \* the consumer currently computing, or None
  dependents,        \* consumers with a live edge to the signal
  dirty,             \* computeds marked dirty
  scheduled,         \* effects scheduled for a re-run
  lastEffective,     \* history: the value stored by the last effective write
  lastCall,          \* history: the last call on the signal and what it did
  currentInjector,   \* _currentInjector slot
  injectImpl,        \* _injectImplementation slot
  frames,            \* active runInInjectionContext frames, innermost first
  registered,        \* the injector under which a pending callback was registered
  ctxCall,           \* history: the last injection-context call
  graph,             \* the reactive graph of signals, computeds and an effect
  graphCall,         \* history: the last operation on the graph
  findImplEnabled,   \* whether _findMatchingDehydratedViewImpl is the real one
  dehydratedViews,   \* lContainer[DEHYDRATED_VIEWS] of each container
  viewCall,          \* history: the last hydration call
  initialClasses,    \* NgClass.initialClasses
  rawClass,          \* NgClass.rawClass
  stateMap,          \* NgClass.stateMap, in insertion order
  classList,         \* the CSS classes of the host element
  ngCall,            \* history: the last call on the NgClass directive
  preanalyzeTemplateCache,  \* the parsed template cached for each class
  preload,           \* the promise of the resource loader's preload, if any
  tplCall            \* history: the last template call

sigVars == <<value, valueVersion, equal, readonlySignal, postSignalSetFn,
             activeConsumer, dependents, dirty, scheduled, lastEffective, lastCall>>
ctxVars == <<currentInjector, injectImpl, frames, registered, ctxCall>>
graphVars == <<graph, graphCall>>
viewVars == <<findImplEnabled, dehydratedViews, viewCall>>
ngVars == <<initialClasses, rawClass, stateMap, classList, ngCall>>
tplVars == <<preanalyzeTemplateCache, preload, tplCall>>
vars == <<sigVars, ctxVars, graphVars, viewVars, ngVars, tplVars>>

\* ---------------------------------------------------------------- helpers
\* consumerAllowSignalWrites of each consumer kind: computeds never allow
\* writes, the effect has opted in.
consumerAllowSignalWrites(c) == c \in Effects

defaultEquals(a, b) == a.id = b.id

\* this.equal(a, b)
equalFn(a, b) ==
  CASE equal = "default" -> defaultEquals(a, b)
    [] equal = "deep"    -> a.data = b.data
    [] OTHER             -> FALSE

\* updater(this.value): the value an updater returns
applyUpdater(fn, v) ==
  CASE fn = "same"  -> v
    [] fn = "clone" -> [id |-> OtherId(v.id), data |-> v.data]
    [] OTHER        -> [id |-> OtherId(v.id), data |-> (v.data + 1) % (MaxData + 1)]

\* mutator(this.value): the same object, its payload changed in place
applyMutator(fn, v) ==
  CASE fn = "bump" -> [v EXCEPT !.data = (v.data + 1) % (MaxData + 1)]
    [] OTHER       -> v


\* ------------------------------------------------- the reactive graph node
\* The state a call works on, and what it has done so far.
Machine ==
  [ value |-> value, valueVersion |-> valueVersion, dependents |-> dependents,
    dirty |-> dirty, scheduled |-> scheduled,
    outcome |-> "ok", trace |-> <<>>, rerun |-> {}, fnCalls |-> 0,
    result |-> NoValue ]

\* one entry of a call's trace: what happened and the state it saw
Event(ev, m) ==
  [ ev |-> ev, value |-> m.value, valueVersion |-> m.valueVersion,
    dirty |-> m.dirty, scheduled |-> m.scheduled, rerun |-> m.rerun ]

\* ReactiveNode.producerUpdatesAllowed
producerUpdatesAllowed ==
  activeConsumer = None \/ consumerAllowSignalWrites(activeConsumer)

\* ReactiveNode.producerMayHaveChanged: every live dependent is told through
\* onConsumerDependencyMayHaveChanged: a computed becomes dirty, an effect is
\* scheduled; nothing is recomputed.
producerMayHaveChanged(m) ==
  LET n == [m EXCEPT !.dirty = @ \cup (m.dependents \cap Computeds),
                     !.scheduled = @ \cup (m.dependents \cap Effects)]
  IN  [n EXCEPT !.trace = Append(@, Event("notify", n))]

\* ReactiveNode.producerAccessed: an edge from the active consumer, if any
producerAccessed(m) ==
  IF activeConsumer = None THEN m
  ELSE [m EXCEPT !.dependents = @ \cup {activeConsumer}]

throwInvalidWriteToSignalError(m) == [m EXCEPT !.outcome = "invalidWrite"]

\* postSignalSetFn?.()  -- a hook that runs the scheduled effects synchronously
\* re-runs each of them except one that is itself running (each reads the
\* signal again and keeps its edge).
runPostSignalSetFn(m) ==
  CASE postSignalSetFn = "null" -> m
    [] OTHER ->
         [m EXCEPT !.trace = Append(@, Event("hook", m)),
                   !.rerun = @ \cup (m.scheduled \ {activeConsumer}),
                   !.scheduled = @ \cap {activeConsumer}]

\* ------------------------------------------------------ WritableSignalImpl
setNoEqualityCheck(m, newValue) ==
  IF ~producerUpdatesAllowed THEN throwInvalidWriteToSignalError(m)
  ELSE runPostSignalSetFn(producerMayHaveChanged(
         [m EXCEPT !.value = newValue, !.valueVersion = @ + 1]))
setNoGuard(m, newValue) ==
  IF ~equalFn(m.value, newValue)
  THEN runPostSignalSetFn(producerMayHaveChanged(
         [m EXCEPT !.value = newValue, !.valueVersion = @ + 1]))
  ELSE m
setNoNotify(m, newValue) ==
  IF ~producerUpdatesAllowed THEN throwInvalidWriteToSignalError(m)
  ELSE IF ~equalFn(m.value, newValue)
  THEN runPostSignalSetFn([m EXCEPT !.value = newValue, !.valueVersion = @ + 1])
  ELSE m
setNoVersionBump(m, newValue) ==
  IF ~producerUpdatesAllowed THEN throwInvalidWriteToSignalError(m)
  ELSE IF ~equalFn(m.value, newValue)
  THEN runPostSignalSetFn(producerMayHaveChanged([m EXCEPT !.value = newValue]))
  ELSE m
setRunsDependents(m, newValue) ==
  IF ~producerUpdatesAllowed THEN throwInvalidWriteToSignalError(m)
  ELSE IF ~equalFn(m.value, newValue)
  THEN LET n == producerMayHaveChanged(
                  [m EXCEPT !.value = newValue, !.valueVersion = @ + 1])
       IN  runPostSignalSetFn([n EXCEPT !.rerun = n.dependents])
  ELSE m
setNotifiesBeforeWrite(m, newValue) ==
  IF ~producerUpdatesAllowed THEN throwInvalidWriteToSignalError(m)
  ELSE IF ~equalFn(m.value, newValue)
  THEN LET n == producerMayHaveChanged(m)
       IN  runPostSignalSetFn([n EXCEPT !.value = newValue, !.valueVersion = @ + 1])
  ELSE m
set(m, newValue) ==
  IF ~producerUpdatesAllowed THEN throwInvalidWriteToSignalError(m)
  ELSE IF ~equalFn(m.value, newValue)
  THEN runPostSignalSetFn(producerMayHaveChanged(
         [m EXCEPT !.value = newValue, !.valueVersion = @ + 1]))
  ELSE m

updateAsMutate(m, updater) ==
  IF ~producerUpdatesAllowed THEN throwInvalidWriteToSignalError(m)
  ELSE IF updater = "throw"
  THEN [m EXCEPT !.fnCalls = @ + 1, !.outcome = "threw"]
  ELSE runPostSignalSetFn(producerMayHaveChanged(
         [m EXCEPT !.fnCalls = @ + 1, !.value = applyUpdater(updater, m.value),
                   !.valueVersion = @ + 1]))
updateTracksRead(m, updater) ==
  IF ~producerUpdatesAllowed THEN throwInvalidWriteToSignalError(m)
  ELSE IF updater = "throw"
  THEN [producerAccessed(m) EXCEPT !.fnCalls = @ + 1, !.outcome = "threw"]
  ELSE set([producerAccessed(m) EXCEPT !.fnCalls = @ + 1],
           applyUpdater(updater, m.value))
update(m, updater) ==
  IF ~producerUpdatesAllowed THEN throwInvalidWriteToSignalError(m)
  ELSE IF updater = "throw"
  THEN [m EXCEPT !.fnCalls = @ + 1, !.outcome = "threw"]
  ELSE set([m EXCEPT !.fnCalls = @ + 1], applyUpdater(updater, m.value))

mutateWithEqualityCheck(m, mutator) ==
  IF ~producerUpdatesAllowed THEN throwInvalidWriteToSignalError(m)
  ELSE IF mutator = "throw"
  THEN [m EXCEPT !.fnCalls = @ + 1, !.outcome = "threw"]
  ELSE IF equalFn(m.value, applyMutator(mutator, m.value))
  THEN [m EXCEPT !.fnCalls = @ + 1, !.value = applyMutator(mutator, m.value)]
  ELSE runPostSignalSetFn(producerMayHaveChanged(
         [m EXCEPT !.fnCalls = @ + 1, !.value = applyMutator(mutator, m.value),
                   !.valueVersion = @ + 1]))
mutateHookFirst(m, mutator) ==
  IF ~producerUpdatesAllowed THEN throwInvalidWriteToSignalError(m)
  ELSE IF mutator = "throw"
  THEN [m EXCEPT !.fnCalls = @ + 1, !.outcome = "threw"]
  ELSE producerMayHaveChanged(runPostSignalSetFn(
         [m EXCEPT !.fnCalls = @ + 1, !.value = applyMutator(mutator, m.value),
                   !.valueVersion = @ + 1]))
mutateCallsMutatorFirst(m, mutator) ==
  IF mutator = "throw"
  THEN [m EXCEPT !.fnCalls = @ + 1, !.outcome = "threw"]
  ELSE IF ~producerUpdatesAllowed
  THEN throwInvalidWriteToSignalError(
         [m EXCEPT !.fnCalls = @ + 1, !.value = applyMutator(mutator, m.value)])
  ELSE runPostSignalSetFn(producerMayHaveChanged(
         [m EXCEPT !.fnCalls = @ + 1, !.value = applyMutator(mutator, m.value),
                   !.valueVersion = @ + 1]))
mutateNotifiesOnThrow(m, mutator) ==
  IF ~producerUpdatesAllowed THEN throwInvalidWriteToSignalError(m)
  ELSE IF mutator = "throw"
  THEN runPostSignalSetFn(producerMayHaveChanged(
         [m EXCEPT !.fnCalls = @ + 1, !.outcome = "threw", !.valueVersion = @ + 1]))
  ELSE runPostSignalSetFn(producerMayHaveChanged(
         [m EXCEPT !.fnCalls = @ + 1, !.value = applyMutator(mutator, m.value),
                   !.valueVersion = @ + 1]))
mutate(m, mutator) ==
  IF ~producerUpdatesAllowed THEN throwInvalidWriteToSignalError(m)
  ELSE IF mutator = "throw"
  THEN [m EXCEPT !.fnCalls = @ + 1, !.outcome = "threw"]
  ELSE runPostSignalSetFn(producerMayHaveChanged(
         [m EXCEPT !.fnCalls = @ + 1, !.value = applyMutator(mutator, m.value),
                   !.valueVersion = @ + 1]))

\* signal(): the read
signalBumpsVersion(m) ==
  [producerAccessed(m) EXCEPT !.result = m.value, !.valueVersion = @ + 1]
signal(m) == [producerAccessed(m) EXCEPT !.result = m.value]

\* the function asReadonly wraps: () => this.signal()
readonlyFnUntracked(m) == [m EXCEPT !.result = m.value]
readonlyFn(m) == signal(m)


\* ------------------------------------------------------------ call records
PreState ==
  [ value |-> value, valueVersion |-> valueVersion, dependents |-> dependents,
    dirty |-> dirty, scheduled |-> scheduled, activeConsumer |-> activeConsumer,
    postSignalSetFn |-> postSignalSetFn, readonlySignal |-> readonlySignal ]

NoCall ==
  [ op |-> "none", newValue |-> NoValue, fn |-> "none", outcome |-> "ok",
    trace |-> <<>>, rerun |-> {}, fnCalls |-> 0, result |-> NoValue,
    ret |-> "none",
    pre |-> [ value |-> NoValue, valueVersion |-> 0, dependents |-> {},
              dirty |-> {}, scheduled |-> {}, activeConsumer |-> None,
              postSignalSetFn |-> "null", readonlySignal |-> "undefined" ] ]

\* the record of a call that ran `op` and ended in machine state m
CallRecord(op, newValue, fn, m) ==
  [ op |-> op, newValue |-> newValue, fn |-> fn, outcome |-> m.outcome,
    trace |-> m.trace, rerun |-> m.rerun, fnCalls |-> m.fnCalls,
    result |-> m.result, ret |-> "none", pre |-> PreState ]

\* whether a write call is, by its arguments alone, one that must take effect
IsEffective(op, arg, fn) ==
  /\ producerUpdatesAllowed
  /\ fn # "throw"
  /\ (op = "mutate" \/ ~equalFn(value, arg))

\* the node's fields after a call that ended in machine state m
Commit(m) ==
  /\ m.valueVersion <= MaxVersion
  /\ value' = m.value
  /\ valueVersion' = m.valueVersion
  /\ dependents' = m.dependents
  /\ dirty' = m.dirty
  /\ scheduled' = m.scheduled

\* ----------------------------------------------------------------- actions
\* s.set(newValue); an argument that is the held object carries its payload
Set(newValue) ==
  /\ newValue.id = value.id => newValue.data = value.data
  /\ Commit(set(Machine, newValue))
  /\ lastCall' = CallRecord("set", newValue, "none", set(Machine, newValue))
  /\ lastEffective' = IF IsEffective("set", newValue, "none")
                      THEN newValue ELSE lastEffective
  /\ UNCHANGED <<ctxVars, graphVars, viewVars, ngVars, tplVars>>
  /\ UNCHANGED <<equal, readonlySignal, postSignalSetFn, activeConsumer>>

\* s.update(updater)
Update(updater) ==
  /\ Commit(update(Machine, updater))
  /\ lastCall' = CallRecord("update", NoValue, updater, update(Machine, updater))
  /\ lastEffective' = IF IsEffective("update", applyUpdater(updater, value), updater)
                      THEN applyUpdater(updater, value) ELSE lastEffective
  /\ UNCHANGED <<ctxVars, graphVars, viewVars, ngVars, tplVars>>
  /\ UNCHANGED <<equal, readonlySignal, postSignalSetFn, activeConsumer>>

\* s.mutate(mutator)
Mutate(mutator) ==
  /\ Commit(mutate(Machine, mutator))
  /\ lastCall' = CallRecord("mutate", NoValue, mutator, mutate(Machine, mutator))
  /\ lastEffective' = IF IsEffective("mutate", applyMutator(mutator, value), mutator)
                      THEN applyMutator(mutator, value) ELSE lastEffective
  /\ UNCHANGED <<ctxVars, graphVars, viewVars, ngVars, tplVars>>
  /\ UNCHANGED <<equal, readonlySignal, postSignalSetFn, activeConsumer>>

\* s(): a read through the writable handle
Read ==
  /\ Commit(signal(Machine))
  /\ lastCall' = CallRecord("read", NoValue, "none", signal(Machine))
  /\ UNCHANGED <<ctxVars, graphVars, viewVars, ngVars, tplVars>>
  /\ UNCHANGED <<equal, readonlySignal, postSignalSetFn, activeConsumer, lastEffective>>

\* s.asReadonly()
asReadonly ==
  IF readonlySignal = "undefined" THEN "view" ELSE readonlySignal

AsReadonly ==
  /\ readonlySignal' = asReadonly
  /\ lastCall' = [CallRecord("asReadonly", NoValue, "none", Machine)
                    EXCEPT !.ret = asReadonly]
  /\ UNCHANGED <<ctxVars, graphVars, viewVars, ngVars, tplVars>>
  /\ UNCHANGED <<value, valueVersion, equal, postSignalSetFn, activeConsumer,
                 dependents, dirty, scheduled, lastEffective>>

\* r(): a read through the view asReadonly returned earlier
ReadView ==
  /\ readonlySignal # "undefined"
  /\ Commit(readonlyFn(Machine))
  /\ lastCall' = CallRecord("readView", NoValue, "none", readonlyFn(Machine))
  /\ UNCHANGED <<ctxVars, graphVars, viewVars, ngVars, tplVars>>
  /\ UNCHANGED <<equal, readonlySignal, postSignalSetFn, activeConsumer, lastEffective>>

\* setPostSignalSetFn(fn)
SetPostSignalSetFn(fn) ==
  /\ postSignalSetFn' = fn
  /\ lastCall' = [CallRecord("setPostSignalSetFn", NoValue, fn, Machine)
                    EXCEPT !.ret = postSignalSetFn]
  /\ UNCHANGED <<ctxVars, graphVars, viewVars, ngVars, tplVars>>
  /\ UNCHANGED <<value, valueVersion, equal, readonlySignal, activeConsumer,
                 dependents, dirty, scheduled, lastEffective>>

\* A consumer starts to (re)compute: it becomes the active consumer, its old
\* dependency set is cleared and it is no longer dirty or scheduled.
ConsumerBegin(c) ==
  /\ activeConsumer = None
  /\ activeConsumer' = c
  /\ dependents' = dependents \ {c}
  /\ dirty' = dirty \ {c}
  /\ scheduled' = scheduled \ {c}
  /\ lastCall' = CallRecord("begin", NoValue, c, Machine)
  /\ UNCHANGED <<ctxVars, graphVars, viewVars, ngVars, tplVars>>
  /\ UNCHANGED <<value, valueVersion, equal, readonlySignal, postSignalSetFn,
                 lastEffective>>

\* The active consumer's computation ends.
ConsumerEnd ==
  /\ activeConsumer # None
  /\ activeConsumer' = None
  /\ lastCall' = CallRecord("end", NoValue, activeConsumer, Machine)
  /\ UNCHANGED <<ctxVars, graphVars, viewVars, ngVars, tplVars>>
  /\ UNCHANGED <<value, valueVersion, equal, readonlySignal, postSignalSetFn,
                 dependents, dirty, scheduled, lastEffective>>

InitSignal ==
  /\ value \in Values
  /\ valueVersion = 0
  /\ equal \in EqualFns
  /\ readonlySignal = "undefined"
  /\ postSignalSetFn = "null"
  /\ activeConsumer = None
  /\ dependents = {}
  /\ dirty = {}
  /\ scheduled = {}
  /\ lastEffective = value
  /\ lastCall = NoCall

NextSignal ==
  \/ \E v \in Values : Set(v)
  \/ \E f \in Updaters : Update(f)
  \/ \E f \in Mutators : Mutate(f)
  \/ Read
  \/ AsReadonly
  \/ ReadView
  \/ \E h \in Hooks : SetPostSignalSetFn(h)
  \/ \E c \in Consumers : ConsumerBegin(c)
  \/ ConsumerEnd

\* ------------------------------------------------------ injection context
Injectors == {"i1", "i2", "destroyed"}
InjectorSlot == Injectors \cup {"undefined"}
ImplSlot == {"impl", "undefined"}

\* injector instanceof R3Injector && injector.assertNotDestroyed() throws
assertNotDestroyedThrows(injector) == injector = "destroyed"

Slots == [ injector |-> currentInjector, impl |-> injectImpl ]

\* setCurrentInjector(injector) / setInjectImplementation(impl): each stores
\* its argument and returns what the slot held before.
setCurrentInjector(injector) == [ now |-> injector, prev |-> currentInjector ]
setInjectImplementation(impl) == [ now |-> impl, prev |-> injectImpl ]

\* The frame of a call of runInInjectionContext: its two locals, and (history)
\* its argument and the slots as they were when it was called.
Frame(injector) ==
  [ prevInjector |-> setCurrentInjector(injector).prev,
    previousInjectImplementation |-> setInjectImplementation("undefined").prev,
    injector |-> injector,
    entry |-> Slots ]

\* the finally block: what the two slots hold after it
finallyOnReturnOnly(frame, how) ==
  IF how = "throw" THEN Slots
  ELSE [ injector |-> frame.prevInjector, impl |-> frame.previousInjectImplementation ]
finallyNoRestore(frame, how) == Slots
finallyRestoresOutermost(frame, how) ==
  [ injector |-> frames[Len(frames)].prevInjector,
    impl |-> frames[Len(frames)].previousInjectImplementation ]
finally(frame, how) ==
  [ injector |-> setCurrentInjector(frame.prevInjector).now,
    impl |-> setInjectImplementation(frame.previousInjectImplementation).now ]

CtxRecord(op, how, outcome, frame) ==
  [ op |-> op, how |-> how, outcome |-> outcome, injector |-> frame.injector,
    entry |-> frame.entry, before |-> Slots ]

NoCtxCall ==
  [ op |-> "none", how |-> "none", outcome |-> "ok", injector |-> "undefined",
    entry |-> [injector |-> "undefined", impl |-> "undefined"],
    before |-> [injector |-> "undefined", impl |-> "undefined"] ]

\* runInInjectionContext(injector, fn), up to the call of fn
RunEnterKeepsOverride(injector) ==
  /\ Len(frames) < MaxDepth
  /\ IF assertNotDestroyedThrows(injector)
     THEN /\ ctxCall' = CtxRecord("run", "throw", "destroyed", Frame(injector))
          /\ UNCHANGED <<currentInjector, injectImpl, frames>>
     ELSE /\ currentInjector' = setCurrentInjector(injector).now
          /\ injectImpl' = injectImpl
          /\ frames' = <<Frame(injector)>> \o frames
          /\ ctxCall' = CtxRecord("enter", "none", "ok", Frame(injector))
  /\ UNCHANGED registered
  /\ UNCHANGED <<sigVars, graphVars, viewVars, ngVars, tplVars>>
RunEnter(injector) ==
  /\ Len(frames) < MaxDepth
  /\ IF assertNotDestroyedThrows(injector)
     THEN /\ ctxCall' = CtxRecord("run", "throw", "destroyed", Frame(injector))
          /\ UNCHANGED <<currentInjector, injectImpl, frames>>
     ELSE /\ currentInjector' = setCurrentInjector(injector).now
          /\ injectImpl' = setInjectImplementation("undefined").now
          /\ frames' = <<Frame(injector)>> \o frames
          /\ ctxCall' = CtxRecord("enter", "none", "ok", Frame(injector))
  /\ UNCHANGED registered
  /\ UNCHANGED <<sigVars, graphVars, viewVars, ngVars, tplVars>>

\* runInInjectionContext, from the end of fn (it returned or threw) to the exit
RunExit(how) ==
  /\ frames # <<>>
  /\ currentInjector' = finally(Head(frames), how).injector
  /\ injectImpl' = finally(Head(frames), how).impl
  /\ frames' = Tail(frames)
  /\ ctxCall' = CtxRecord("exit", how, IF how = "throw" THEN "rethrown" ELSE "ok",
                          Head(frames))
  /\ UNCHANGED registered
  /\ UNCHANGED <<sigVars, graphVars, viewVars, ngVars, tplVars>>

\* code running inside or outside fn stores into one of the slots
SetCurrentInjector(injector) ==
  /\ currentInjector' = setCurrentInjector(injector).now
  /\ ctxCall' = [NoCtxCall EXCEPT !.op = "setCurrentInjector"]
  /\ UNCHANGED <<injectImpl, frames, registered>>
  /\ UNCHANGED <<sigVars, graphVars, viewVars, ngVars, tplVars>>

SetInjectImplementation(impl) ==
  /\ injectImpl' = setInjectImplementation(impl).now
  /\ ctxCall' = [NoCtxCall EXCEPT !.op = "setInjectImplementation"]
  /\ UNCHANGED <<currentInjector, frames, registered>>
  /\ UNCHANGED <<sigVars, graphVars, viewVars, ngVars, tplVars>>

\* assertInInjectionContext(debugFn)
assertInInjectionContextEither ==
  IF injectImpl = "undefined" \/ currentInjector = "undefined"
  THEN "MISSING_INJECTION_CONTEXT" ELSE "ok"
assertInInjectionContext ==
  IF injectImpl = "undefined" /\ currentInjector = "undefined"
  THEN "MISSING_INJECTION_CONTEXT" ELSE "ok"

AssertInInjectionContext ==
  /\ ctxCall' = [NoCtxCall EXCEPT !.op = "assert", !.before = Slots,
                                  !.outcome = assertInInjectionContext]
  /\ UNCHANGED <<currentInjector, injectImpl, frames, registered>>
  /\ UNCHANGED <<sigVars, graphVars, viewVars, ngVars, tplVars>>

\* The privileged lookup: guarded by assertInInjectionContext, it resolves
\* through the inject override when one is installed and through the current
\* injector otherwise; the result names what resolved it.
inject ==
  IF assertInInjectionContext # "ok" THEN assertInInjectionContext
  ELSE IF injectImpl # "undefined" THEN injectImpl
  ELSE currentInjector

\* inject(token), called by whatever code is running; `how` tells whether it
\* is the first thing fn does, and `injector` then names fn's injector.
Inject ==
  /\ ctxCall' = [NoCtxCall EXCEPT
                   !.op = "inject",
                   !.how = IF ctxCall.op = "enter" THEN "firstInFn" ELSE "other",
                   !.injector = IF ctxCall.op = "enter" THEN ctxCall.injector
                                ELSE "undefined",
                   !.outcome = inject,
                   !.before = Slots]
  /\ UNCHANGED <<currentInjector, injectImpl, frames, registered>>
  /\ UNCHANGED <<sigVars, graphVars, viewVars, ngVars, tplVars>>

\* fn registers a callback for later (a lifecycle hook, an event handler)
RegisterCallback ==
  /\ frames # <<>>
  /\ registered = "none"
  /\ registered' = Head(frames).injector
  /\ UNCHANGED <<currentInjector, injectImpl, frames, ctxCall>>
  /\ UNCHANGED <<sigVars, graphVars, viewVars, ngVars, tplVars>>

\* The registered callback is invoked and calls assertInInjectionContext. `how`
\* tells whether it runs right after the exit of the runInInjectionContext call
\* it was registered in.
InvokeCallback ==
  /\ registered # "none"
  /\ registered' = "none"
  /\ ctxCall' = [NoCtxCall EXCEPT
                   !.op = "callback",
                   !.how = IF ctxCall.op = "exit" /\ ctxCall.injector = registered
                           THEN "afterOwnExit" ELSE "other",
                   !.entry = IF ctxCall.op = "exit" /\ ctxCall.injector = registered
                             THEN ctxCall.entry ELSE NoCtxCall.entry,
                   !.injector = registered,
                   !.outcome = assertInInjectionContext,
                   !.before = Slots]
  /\ UNCHANGED <<currentInjector, injectImpl, frames>>
  /\ UNCHANGED <<sigVars, graphVars, viewVars, ngVars, tplVars>>

InitCtx ==
  /\ currentInjector = "undefined"
  /\ injectImpl = "undefined"
  /\ frames = <<>>
  /\ registered = "none"
  /\ ctxCall = NoCtxCall

NextCtx ==
  \/ \E i \in Injectors : RunEnter(i)
  \/ \E how \in {"return", "throw"} : RunExit(how)
  \/ \E i \in InjectorSlot : SetCurrentInjector(i)
  \/ \E f \in ImplSlot : SetInjectImplementation(f)
  \/ AssertInInjectionContext
  \/ Inject
  \/ RegisterCallback
  \/ InvokeCallback

\* ------------------------------------------------------ the reactive graph
\* Two signals, computeds over them, two computeds that read each other, and
\* an effect:
\*   m = computed(() => a() % 2)         c = computed(() => m() + 2 * b())
\*   t = computed(() => { if (b() == MaxSig) throw ...; return b() })
\*   x = computed(() => y() + 1)         y = computed(() => x() + 1)
\*   e = effect(() => { m(); b() })
GSignals == {"a", "b"}
GComputeds == {"m", "c", "t", "x", "y"}
GEffects == {"e"}
GProducers == GSignals \cup GComputeds
\* the programs explored: each creates one of these sets of consumers
Programs == {{"m", "c", "e"}, {"t"}, {"x", "y"}}
GConsumers == GComputeds \cup GEffects

\* the producers a consumer's function reads, in order
Reads(n) ==
  CASE n = "m" -> <<"a">>
    [] n = "c" -> <<"m", "b">>
    [] n = "t" -> <<"b">>
    [] n = "x" -> <<"y">>
    [] n = "y" -> <<"x">>
    [] OTHER   -> <<"m", "b">>

\* whether the function of n throws on the values it read
Throws(n, vals) == n = "t" /\ vals[1] = MaxSig

\* the value the function of n returns on the values it read
Fn(n, vals) ==
  CASE n = "m" -> vals[1] % 2
    [] n = "c" -> vals[1] + 2 * vals[2]
    [] n = "t" -> vals[1]
    [] OTHER   -> vals[1] + 1

\* the signals n depends on, directly or through other computeds
SignalsOf(n) ==
  CASE n = "m" -> {"a"}
    [] n = "c" -> {"a", "b"}
    [] n = "t" -> {"b"}
    [] OTHER   -> {}

NoCache == -1
NoEdge == -1
NoCounts == [k \in GComputeds |-> 0]
UpTo2(i) == IF i < 2 THEN i + 1 ELSE 2

\* the outcome of a read: the graph after it, the value, and the error if any
Result(g, val, err) == [g |-> g, val |-> val, err |-> err]

\* ReactiveNode.producerAccessed, for a read of p made while `by` computes
gProducerAccessed(g, p, by) ==
  IF by = None THEN g
  ELSE [g EXCEPT !.deps[by][p] = g.ver[p], !.cons[p] = @ \cup {by}]

\* ReactiveNode.producerMayHaveChanged of p: its live dependents are marked
gProducerMayHaveChanged(g, p) ==
  [g EXCEPT !.dirty = @ \cup (g.cons[p] \cap GComputeds),
            !.scheduled = @ \cup (g.cons[p] \cap GEffects)]

\* a consumer about to (re)compute drops its old dependency set
clearDeps(g, n) ==
  [g EXCEPT !.deps[n] = [p \in GProducers |-> NoEdge],
            !.cons = [p \in GProducers |-> g.cons[p] \ {n}]]

\* n has been verified clean in the current epoch
markClean(g, n) ==
  [g EXCEPT !.clean[n] = g.epoch, !.dirty = @ \ {n}]

\* the epoch short-circuit: cached, not errored, verified clean in this epoch
reusable(g, n) ==
  /\ g.cache[n] # NoCache
  /\ n \notin g.errored
  /\ g.clean[n] = g.epoch

\* an errored computed is not poisoned: the next read computes again
mustRetryNever(g, n) == FALSE
mustRetry(g, n) == n \in g.errored

\* a read of a computed that is itself computing: the cyclic-dependency error
onCycleReturnsCache(g, n) == Result(g, 0, "ok")
onCycle(g, n) == Result(g, NoCache, "CyclicDependency")

\* the function of n threw (or a read inside it failed): n is errored, its
\* version and cache stay
onThrow(g, n) ==
  [g EXCEPT !.errored = @ \cup {n}, !.dirty = @ \ {n},
            !.allCalls[n] = UpTo2(@), !.inv[n] = UpTo2(@)]

\* the function of n returned v: an equal result keeps the version and tells
\* nobody; a changed one is stored, bumps the version and notifies
finishAlwaysPropagates(g, n, v) ==
  LET h == [g EXCEPT !.errored = @ \ {n}, !.okCalls[n] = UpTo2(@),
                     !.allCalls[n] = UpTo2(@), !.inv[n] = UpTo2(@)]
  IN  markClean(gProducerMayHaveChanged(
        [h EXCEPT !.cache[n] = v, !.ver[n] = @ + 1], n), n)
finish(g, n, v) ==
  LET h == [g EXCEPT !.errored = @ \ {n}, !.okCalls[n] = UpTo2(@),
                     !.allCalls[n] = UpTo2(@), !.inv[n] = UpTo2(@)]
  IN  IF h.cache[n] # NoCache /\ h.cache[n] = v
      THEN markClean(h, n)
      ELSE markClean(gProducerMayHaveChanged(
             [h EXCEPT !.cache[n] = v, !.ver[n] = @ + 1], n), n)

\* the recorded dependencies of n, in the order they were read
RecordedDeps(g, n) == SelectSeq(Reads(n), LAMBDA p : g.deps[n][p] # NoEdge)

RECURSIVE readNode(_, _, _)
RECURSIVE readAll(_, _, _, _, _)
RECURSIVE verify(_, _, _, _)

\* a read of producer p made by `by`: a signal is always up to date, a
\* computed refreshes itself first; then the edge is recorded
access(g, p, by, computing) ==
  LET r == IF p \in GSignals THEN Result(g, g.val[p], "ok")
           ELSE readNode(g, p, computing)
  IN  IF r.err # "ok" THEN r
      ELSE [r EXCEPT !.g = gProducerAccessed(r.g, p, by)]

\* the reads the function of n makes, in order, up to the first that fails
readAll(g, n, ps, computing, vals) ==
  IF ps = <<>> THEN [g |-> g, vals |-> vals, err |-> "ok"]
  ELSE LET r == access(g, Head(ps), n, computing)
       IN  IF r.err # "ok" THEN [g |-> r.g, vals |-> vals, err |-> r.err]
           ELSE readAll(r.g, n, Tail(ps), computing, Append(vals, r.val))

verifyAlwaysStale(g, n, ps, computing) == [g |-> g, stale |-> TRUE]
\* staleness check: each recorded producer refreshes its version and is
\* compared with the version recorded at the last read
verify(g, n, ps, computing) ==
  IF ps = <<>> THEN [g |-> g, stale |-> FALSE]
  ELSE LET p == Head(ps)
           r == IF p \in GSignals THEN Result(g, g.val[p], "ok")
                ELSE readNode(g, p, computing)
       IN  IF r.err # "ok" \/ r.g.ver[p] # r.g.deps[n][p]
           THEN [g |-> r.g, stale |-> TRUE]
           ELSE verify(r.g, n, Tail(ps), computing)

\* recomputation: n becomes the active consumer, its dependency set is rebuilt
\* by the reads of its function, the result is compared with the cache
recompute(g, n, computing) ==
  LET r == readAll(clearDeps(g, n), n, Reads(n), computing \cup {n}, <<>>)
  IN  IF r.err # "ok" THEN Result(onThrow(r.g, n), NoCache, r.err)
      ELSE IF Throws(n, r.vals)
      THEN Result(onThrow(r.g, n), NoCache, "ComputationFailure")
      ELSE Result(finish(r.g, n, Fn(n, r.vals)), Fn(n, r.vals), "ok")

\* Computed.read()
readNode(g, n, computing) ==
  IF n \in computing THEN onCycle(g, n)
  ELSE IF reusable(g, n) THEN Result(g, g.cache[n], "ok")
  ELSE IF g.cache[n] = NoCache \/ mustRetry(g, n) THEN recompute(g, n, computing)
  ELSE IF n \in g.errored THEN Result(g, NoCache, "ComputationFailure")
  ELSE LET v == verify(g, n, RecordedDeps(g, n), computing)
       IN  IF v.stale THEN recompute(v.g, n, computing)
           ELSE Result(markClean(v.g, n), v.g.cache[n], "ok")

\* the write of a number to signal s, through WritableSignalImpl.set: numbers
\* are equal when they are the same number
Prim(d) == [id |-> "o1", data |-> d]
signalMachine(g, s) ==
  [ value |-> Prim(g.val[s]), valueVersion |-> g.ver[s], dependents |-> {},
    dirty |-> {}, scheduled |-> {}, outcome |-> "ok", trace |-> <<>>,
    rerun |-> {}, fnCalls |-> 0, result |-> NoValue ]

\* the invocation counts of the computeds that do not depend on s
SinceChange(counts, s) ==
  [k \in GComputeds |-> IF s \in SignalsOf(k) THEN 0 ELSE counts[k]]

\* the graph after s.set(d): value and version as set left them; when set
\* called producerMayHaveChanged a new epoch starts and the dependents of s
\* are marked
gSet(g, s, d) ==
  LET r == set(signalMachine(g, s), Prim(d))
      h == [g EXCEPT !.val[s] = r.value.data, !.ver[s] = r.valueVersion]
  IN  IF r.trace = <<>> THEN h
      ELSE gProducerMayHaveChanged(
             [h EXCEPT !.epoch = @ + 1,
                       !.okCalls = SinceChange(h.okCalls, s),
                       !.allCalls = SinceChange(h.allCalls, s)], s)

\* the scheduler runs the effect: its dependency set is rebuilt by its reads
gRunEffect(g) ==
  readAll([clearDeps(g, "e") EXCEPT !.scheduled = @ \ {"e"}],
          "e", Reads("e"), {"e"}, <<>>).g

\* disposal of the effect: out of every dependent set, nothing pending
gDisposeKeepsEdges(g) ==
  [g EXCEPT !.scheduled = @ \ {"e"}, !.disposed = TRUE,
            !.formerDeps = @ \cup {p \in GProducers : g.deps["e"][p] # NoEdge}]
gDispose(g) ==
  [clearDeps(g, "e") EXCEPT
     !.scheduled = @ \ {"e"}, !.disposed = TRUE,
     !.formerDeps = @ \cup {p \in GProducers : g.deps["e"][p] # NoEdge}]

\* the graph as an operation finds it: nothing invoked yet
Fresh == [graph EXCEPT !.inv = NoCounts]

GraphRecord(op, node, arg, outcome, result) ==
  [ op |-> op, node |-> node, arg |-> arg, outcome |-> outcome,
    result |-> result, pre |-> graph ]

\* a top-level read of a computed
GraphRead(n) ==
  /\ n \in graph.live
  /\ graph' = readNode(Fresh, n, {}).g
  /\ graphCall' = GraphRecord("read", n, NoCache, readNode(Fresh, n, {}).err,
                              readNode(Fresh, n, {}).val)
  /\ UNCHANGED <<sigVars, ctxVars, viewVars, ngVars, tplVars>>

\* a top-level s.set(d)
GraphSet(s, d) ==
  /\ graph.epoch < MaxEpoch
  /\ graph' = gSet(Fresh, s, d)
  /\ graphCall' = GraphRecord("set", s, d, "ok", NoCache)
  /\ UNCHANGED <<sigVars, ctxVars, viewVars, ngVars, tplVars>>

\* the scheduler dispatches the scheduled effect
GraphRunEffect ==
  /\ "e" \in graph.live
  /\ "e" \in graph.scheduled
  /\ graph' = gRunEffect(Fresh)
  /\ graphCall' = GraphRecord("run", "e", NoCache, "ok", NoCache)
  /\ UNCHANGED <<sigVars, ctxVars, viewVars, ngVars, tplVars>>

\* the effect is disposed (again)
GraphDispose ==
  /\ "e" \in graph.live
  /\ graph' = gDispose(Fresh)
  /\ graphCall' = GraphRecord("dispose", "e", NoCache, "ok", NoCache)
  /\ UNCHANGED <<sigVars, ctxVars, viewVars, ngVars, tplVars>>

NoGraphCall ==
  [ op |-> "none", node |-> "none", arg |-> NoCache, outcome |-> "ok",
    result |-> NoCache, pre |-> 0 ]

\* nothing computed yet; the effect was created and awaits its first run
NewGraph(live, va, vb) ==
  [ live |-> live,
    val |-> [s \in GSignals |-> IF s = "a" THEN va ELSE vb],
    ver |-> [p \in GProducers |-> 0],
    cache |-> [k \in GComputeds |-> NoCache],
    deps |-> [k \in GConsumers |-> [p \in GProducers |-> NoEdge]],
    cons |-> [p \in GProducers |-> {}],
    dirty |-> {}, scheduled |-> live \cap GEffects,
    clean |-> [k \in GComputeds |-> -1],
    epoch |-> 0, errored |-> {}, disposed |-> FALSE,
    formerDeps |-> {},
    okCalls |-> NoCounts, allCalls |-> NoCounts, inv |-> NoCounts ]

InitGraph ==
  /\ graph = NewGraph({}, 0, 0)
  /\ graphCall = NoGraphCall

NextGraph ==
  \/ \E n \in GComputeds : GraphRead(n)
  \/ \E s \in GSignals, d \in 0..MaxSig : GraphSet(s, d)
  \/ GraphRunEffect
  \/ GraphDispose

\* ------------------------------------------------------- dehydrated views
Containers == {"k1", "k2"}
TemplateIds == {"t1", "t2"}
\* the template argument: string | null
TemplateArgs == TemplateIds \cup {"", "null"}

\* A dehydrated view: the template id of its serialized data and (history)
\* its position in the container when the views were located.
NoView == [template |-> "null", node |-> 0]
ViewLists ==
  UNION { { [i \in 1..n |-> [template |-> ts[i], node |-> i]] :
              ts \in [1..n -> TemplateIds] } : n \in 0..MaxViews }

\* lContainer[DEHYDRATED_VIEWS]: an array of views, or not set
NotSet == [defined |-> FALSE, views |-> <<>>]
ContainerStates == {NotSet} \cup { [defined |-> TRUE, views |-> vs] : vs \in ViewLists }

\* removeDehydratedViews(lContainer): no dehydrated view is left in it
removeDehydratedViews(lContainer) == [defined |-> TRUE, views |-> <<>>]

\* findMatchingDehydratedViewImpl: the view returned and the container after
findMatchingDehydratedViewImplPopsLast(lContainer, template) ==
  LET views == IF lContainer.defined THEN lContainer.views ELSE <<>>
  IN  IF template \in {"", "null"} \/ Len(views) = 0
      THEN [result |-> NoView, lContainer |-> lContainer]
      ELSE IF views[1].template = template
      THEN [result |-> views[Len(views)],
            lContainer |-> [lContainer EXCEPT
                              !.views = SubSeq(views, 1, Len(views) - 1)]]
      ELSE [result |-> NoView, lContainer |-> removeDehydratedViews(lContainer)]
findMatchingDehydratedViewImplKeepsOnMismatch(lContainer, template) ==
  LET views == IF lContainer.defined THEN lContainer.views ELSE <<>>
  IN  IF template \in {"", "null"} \/ Len(views) = 0
      THEN [result |-> NoView, lContainer |-> lContainer]
      ELSE IF views[1].template = template
      THEN [result |-> views[1],
            lContainer |-> [lContainer EXCEPT !.views = Tail(views)]]
      ELSE [result |-> NoView, lContainer |-> lContainer]
findMatchingDehydratedViewImpl(lContainer, template) ==
  LET views == IF lContainer.defined THEN lContainer.views ELSE <<>>
  IN  IF template \in {"", "null"} \/ Len(views) = 0
      THEN [result |-> NoView, lContainer |-> lContainer]
      ELSE IF views[1].template = template
      THEN [result |-> views[1],
            lContainer |-> [lContainer EXCEPT !.views = Tail(views)]]
      ELSE [result |-> NoView, lContainer |-> removeDehydratedViews(lContainer)]

\* findMatchingDehydratedView: through _findMatchingDehydratedViewImpl, which
\* returns null until enableFindMatchingDehydratedViewImpl has installed the
\* function above
findMatchingDehydratedViewAlwaysImpl(lContainer, template) ==
  findMatchingDehydratedViewImpl(lContainer, template)
findMatchingDehydratedView(lContainer, template) ==
  IF findImplEnabled
  THEN findMatchingDehydratedViewImpl(lContainer, template)
  ELSE [result |-> NoView, lContainer |-> lContainer]

NoViewCall ==
  [ op |-> "none", container |-> "none", template |-> "null", result |-> NoView,
    enabled |-> FALSE, pre |-> [k \in Containers |-> NotSet] ]

FindMatchingDehydratedView(k, template) ==
  /\ dehydratedViews' =
       [dehydratedViews EXCEPT
          ![k] = findMatchingDehydratedView(dehydratedViews[k], template).lContainer]
  /\ viewCall' =
       [ op |-> "find", container |-> k, template |-> template,
         result |-> findMatchingDehydratedView(dehydratedViews[k], template).result,
         enabled |-> findImplEnabled, pre |-> dehydratedViews ]
  /\ UNCHANGED findImplEnabled
  /\ UNCHANGED <<sigVars, ctxVars, graphVars, ngVars, tplVars>>

EnableFindMatchingDehydratedViewImpl ==
  /\ findImplEnabled' = TRUE
  /\ viewCall' = [NoViewCall EXCEPT !.op = "enable", !.enabled = findImplEnabled,
                                    !.pre = dehydratedViews]
  /\ UNCHANGED dehydratedViews
  /\ UNCHANGED <<sigVars, ctxVars, graphVars, ngVars, tplVars>>

\* the views of every container have been located; hydration is not enabled
InitViews ==
  /\ findImplEnabled = FALSE
  /\ dehydratedViews = [k \in Containers |-> NotSet]
  /\ viewCall = NoViewCall

InitLocatedViews ==
  /\ findImplEnabled = FALSE
  /\ dehydratedViews \in [Containers -> ContainerStates]
  /\ viewCall = NoViewCall

NextViews ==
  \/ \E k \in Containers, t \in TemplateArgs : FindMatchingDehydratedView(k, t)
  \/ EnableFindMatchingDehydratedViewImpl

\* ------------------------------------------------------------------ NgClass
\* CSS class names, and the strings that are bound: a key may list several
\* classes separated by white space
ClassNames == {"a", "b"}
ClassKeys == {"a", "a b"}
\* values of the [class] input: string, or null
KlassValues == {"null", "", "a"}
\* strings bound to [ngClass]
NgClassStrings == {"", "a b"}

\* value.trim().split(WS_REGEXP)
TrimSplit(str) ==
  CASE str = "a b" -> <<"a", "b">>
    [] OTHER       -> <<str>>

\* the classes _toggleClass toggles for klass: klass.trim(), and when that is
\* not empty, its split at white space
ToggledClasses(klass) == IF klass = "" THEN <<>> ELSE TrimSplit(klass)

\* what can be bound to [ngClass]: null, a string, an array (a Set is iterated
\* the same way) or an object whose values are truthy or falsy
Entries(vals) ==
  UNION { [1..n -> [klass : ClassKeys, on : vals]] : n \in 0..MaxKeys }
DistinctKeys(es) ==
  \A i \in 1..Len(es), j \in 1..Len(es) : es[i].klass = es[j].klass => i = j
NgClassValues ==
  {[kind |-> "null", str |-> "", entries |-> <<>>]}
  \cup {[kind |-> "string", str |-> str, entries |-> <<>>] : str \in NgClassStrings}
  \cup {[kind |-> "array", str |-> "", entries |-> es] : es \in Entries({TRUE})}
  \cup {[kind |-> "object", str |-> "", entries |-> es] :
          es \in {e \in Entries(BOOLEAN) : DistinctKeys(e)}}

AllOn(ks) == [i \in 1..Len(ks) |-> [klass |-> ks[i], on |-> TRUE]]

\* set klass(value)
klass(v) == IF v # "null" THEN TrimSplit(v) ELSE <<>>

\* set ngClass(value): a string is split, anything else is kept
ngClass(v) ==
  IF v.kind = "string"
  THEN [kind |-> "array", str |-> "", entries |-> AllOn(TrimSplit(v.str))]
  ELSE v

\* the element: its classes and (history) the renderer calls made on it
Element(classes, calls) == [classes |-> classes, calls |-> calls]

RECURSIVE toggleEach(_, _, _)
toggleEach(el, names, enabled) ==
  IF names = <<>> THEN el
  ELSE toggleEach(
         IF enabled
         THEN Element(el.classes \cup {Head(names)},
                      Append(el.calls, [op |-> "addClass", klass |-> Head(names)]))
         ELSE Element(el.classes \ {Head(names)},
                      Append(el.calls, [op |-> "removeClass", klass |-> Head(names)])),
         Tail(names), enabled)

\* _toggleClass(klass, enabled)
toggleClass(el, k, enabled) == toggleEach(el, ToggledClasses(k), enabled)

\* _updateState(klass, nextEnabled) on the state map
updateState(map, k, nextEnabled) ==
  IF \E i \in 1..Len(map) : map[i].klass = k
  THEN LET i == CHOOSE i \in 1..Len(map) : map[i].klass = k
       IN  [map EXCEPT ![i] =
              [ klass |-> k, enabled |-> nextEnabled,
                changed |-> map[i].changed \/ map[i].enabled # nextEnabled,
                touched |-> TRUE ]]
  ELSE Append(map, [klass |-> k, enabled |-> nextEnabled,
                    changed |-> TRUE, touched |-> TRUE])

RECURSIVE updateEach(_, _)
updateEach(map, es) ==
  IF es = <<>> THEN map
  ELSE updateEach(updateState(map, Head(es).klass, Head(es).on), Tail(es))

\* _applyStateDiff: the entries in insertion order; kept is the state map that
\* is left
RECURSIVE applyStateDiffKeepsUntouched(_, _, _)
applyStateDiffKeepsUntouched(rest, kept, el) ==
  IF rest = <<>> THEN [stateMap |-> kept, el |-> el]
  ELSE LET state == Head(rest)
           done == [state EXCEPT !.changed = FALSE, !.touched = FALSE]
       IN  IF state.changed
           THEN applyStateDiffKeepsUntouched(Tail(rest), Append(kept, done),
                                toggleClass(el, state.klass, state.enabled))
           ELSE IF ~state.touched
           THEN applyStateDiffKeepsUntouched(Tail(rest), Append(kept, done),
                                IF state.enabled
                                THEN toggleClass(el, state.klass, FALSE) ELSE el)
           ELSE applyStateDiffKeepsUntouched(Tail(rest), Append(kept, done), el)
RECURSIVE applyStateDiff(_, _, _)
applyStateDiff(rest, kept, el) ==
  IF rest = <<>> THEN [stateMap |-> kept, el |-> el]
  ELSE LET state == Head(rest)
           done == [state EXCEPT !.changed = FALSE, !.touched = FALSE]
       IN  IF state.changed
           THEN applyStateDiff(Tail(rest), Append(kept, done),
                               toggleClass(el, state.klass, state.enabled))
           ELSE IF ~state.touched
           THEN applyStateDiff(Tail(rest), kept,
                               IF state.enabled
                               THEN toggleClass(el, state.klass, FALSE) ELSE el)
           ELSE applyStateDiff(Tail(rest), Append(kept, done), el)

\* ngDoCheck: the [class] classes, then the [ngClass] ones, then the diff
ngDoCheck(initial, raw, map, classes) ==
  LET m1 == updateEach(map, AllOn(initial))
      m2 == IF raw.kind = "array" THEN updateEach(m1, AllOn([i \in 1..Len(raw.entries) |-> raw.entries[i].klass]))
            ELSE IF raw.kind # "null" THEN updateEach(m1, raw.entries)
            ELSE m1
  IN  applyStateDiff(m2, <<>>, Element(classes, <<>>))

\* the last call on the directive. fresh: the inputs have had the same content
\* ever since the last ngDoCheck; same: ngDoCheck found them so
NoNgCall ==
  [ op |-> "none", fresh |-> FALSE, same |-> FALSE,
    pre |-> [stateMap |-> <<>>, classes |-> {}], calls |-> <<>> ]

SetKlass(v) ==
  /\ initialClasses' = klass(v)
  /\ ngCall' = [NoNgCall EXCEPT !.op = "klass",
                   !.fresh = ngCall.fresh /\ klass(v) = initialClasses]
  /\ UNCHANGED <<rawClass, stateMap, classList>>
  /\ UNCHANGED <<sigVars, ctxVars, graphVars, viewVars, tplVars>>

SetNgClass(v) ==
  /\ rawClass' = ngClass(v)
  /\ ngCall' = [NoNgCall EXCEPT !.op = "ngClass",
                   !.fresh = ngCall.fresh /\ ngClass(v) = rawClass]
  /\ UNCHANGED <<initialClasses, stateMap, classList>>
  /\ UNCHANGED <<sigVars, ctxVars, graphVars, viewVars, tplVars>>

NgDoCheck ==
  /\ stateMap' = ngDoCheck(initialClasses, rawClass, stateMap, classList).stateMap
  /\ classList' = ngDoCheck(initialClasses, rawClass, stateMap, classList).el.classes
  /\ ngCall' =
       [ op |-> "ngDoCheck",
         fresh |-> TRUE, same |-> ngCall.fresh,
         pre |-> [stateMap |-> stateMap, classes |-> classList],
         calls |-> ngDoCheck(initialClasses, rawClass, stateMap, classList).el.calls ]
  /\ UNCHANGED <<initialClasses, rawClass>>
  /\ UNCHANGED <<sigVars, ctxVars, graphVars, viewVars, tplVars>>

\* the directive as constructed: no input set, nothing in the state map
InitNg ==
  /\ initialClasses = <<>>
  /\ rawClass = [kind |-> "null", str |-> "", entries |-> <<>>]
  /\ stateMap = <<>>
  /\ classList = {}
  /\ ngCall = NoNgCall

NextNg ==
  \/ \E v \in KlassValues : SetKlass(v)
  \/ \E v \in NgClassValues : SetNgClass(v)
  \/ NgDoCheck

\* ------------------------------------------------------ component templates
\* The fields of the @Component decorator that matter, by what the partial
\* evaluator makes of each expression.
PreserveWhitespacesExprs == {"absent", "true", "wrong type"}
InterpolationExprs == {"absent", "valid", "wrong type"}
TemplateUrlExprs == {"absent", "ok.html", "missing.html", "wrong type"}
TemplateExprs == {"absent", "literal", "wrong type"}
Components ==
  [ preserveWhitespaces : PreserveWhitespacesExprs, interpolation : InterpolationExprs,
    templateUrl : TemplateUrlExprs, template : TemplateExprs ]

\* component.has(field)
has(component, field) == component[field] # "absent"

\* the classes analysed and the file that contains each
Nodes == {"n1", "n2"}
FileOf(node) == IF node = "n1" THEN "/src/n1.ts" ELSE "/src/n2.ts"

\* results and errors
NoDecl ==
  [ isInline |-> FALSE, interpolationConfig |-> "none", preserveWhitespaces |-> FALSE,
    templateUrl |-> "none", resolvedTemplateUrl |-> "none" ]
NoTemplate == [declaration |-> NoDecl, content |-> "none"]
Returned(v) == [ok |-> TRUE, code |-> "none", value |-> v]
Thrown(code, v) == [ok |-> FALSE, code |-> code, value |-> v]

\* resourceLoader.resolve(url, containingFile)
resolve(url, containingFile) ==
  IF url = "ok.html" THEN Returned("/src/ok.html") ELSE Thrown("not found", "none")

\* resourceLoader.load(resolvedUrl)
load(resolvedUrl) == "<external>"

parseTemplateDeclarationPrefersTemplate(component, containingFile, defaultPreserveWhitespaces) ==
  IF component.preserveWhitespaces = "wrong type"
  THEN Thrown("VALUE_HAS_WRONG_TYPE", NoDecl)
  ELSE IF component.interpolation = "wrong type"
  THEN Thrown("VALUE_HAS_WRONG_TYPE", NoDecl)
  ELSE
  LET preserveWhitespaces ==
        IF has(component, "preserveWhitespaces") THEN TRUE
        ELSE defaultPreserveWhitespaces
      interpolationConfig ==
        IF has(component, "interpolation") THEN "custom" ELSE "DEFAULT"
  IN  IF has(component, "template")
      THEN Returned([ isInline |-> TRUE, interpolationConfig |-> interpolationConfig,
                      preserveWhitespaces |-> preserveWhitespaces,
                      templateUrl |-> containingFile,
                      resolvedTemplateUrl |-> containingFile ])
      ELSE IF has(component, "templateUrl")
      THEN IF component.templateUrl = "wrong type"
           THEN Thrown("VALUE_HAS_WRONG_TYPE", NoDecl)
           ELSE IF resolve(component.templateUrl, containingFile).ok
           THEN Returned([ isInline |-> FALSE, interpolationConfig |-> interpolationConfig,
                           preserveWhitespaces |-> preserveWhitespaces,
                           templateUrl |-> component.templateUrl,
                           resolvedTemplateUrl |->
                             resolve(component.templateUrl, containingFile).value ])
           ELSE Thrown("COMPONENT_RESOURCE_NOT_FOUND", NoDecl)
      ELSE Thrown("COMPONENT_MISSING_TEMPLATE", NoDecl)
\* parseTemplateDeclaration
parseTemplateDeclaration(component, containingFile, defaultPreserveWhitespaces) ==
  IF component.preserveWhitespaces = "wrong type"
  THEN Thrown("VALUE_HAS_WRONG_TYPE", NoDecl)
  ELSE IF component.interpolation = "wrong type"
  THEN Thrown("VALUE_HAS_WRONG_TYPE", NoDecl)
  ELSE
  LET preserveWhitespaces ==
        IF has(component, "preserveWhitespaces") THEN TRUE
        ELSE defaultPreserveWhitespaces
      interpolationConfig ==
        IF has(component, "interpolation") THEN "custom" ELSE "DEFAULT"
  IN  IF has(component, "templateUrl")
      THEN IF component.templateUrl = "wrong type"
           THEN Thrown("VALUE_HAS_WRONG_TYPE", NoDecl)
           ELSE IF resolve(component.templateUrl, containingFile).ok
           THEN Returned([ isInline |-> FALSE, interpolationConfig |-> interpolationConfig,
                           preserveWhitespaces |-> preserveWhitespaces,
                           templateUrl |-> component.templateUrl,
                           resolvedTemplateUrl |->
                             resolve(component.templateUrl, containingFile).value ])
           ELSE Thrown("COMPONENT_RESOURCE_NOT_FOUND", NoDecl)
      ELSE IF has(component, "template")
      THEN Returned([ isInline |-> TRUE, interpolationConfig |-> interpolationConfig,
                      preserveWhitespaces |-> preserveWhitespaces,
                      templateUrl |-> containingFile,
                      resolvedTemplateUrl |-> containingFile ])
      ELSE Thrown("COMPONENT_MISSING_TEMPLATE", NoDecl)

\* extractTemplate: an inline template that is not a literal must evaluate to
\* a string; an external one is loaded
extractTemplate(component, declaration) ==
  IF declaration.isInline
  THEN IF component.template = "wrong type"
       THEN Thrown("VALUE_HAS_WRONG_TYPE", NoTemplate)
       ELSE Returned([declaration |-> declaration, content |-> "<inline>"])
  ELSE Returned([declaration |-> declaration,
                 content |-> load(declaration.resolvedTemplateUrl)])

\* parseTemplateDeclaration, extractTemplate, preanalyzeTemplateCache.set: the
\* outcome and the cache after
parseExtractAndCache(cache, node, component, defaultPreserveWhitespaces) ==
  LET decl == parseTemplateDeclaration(component, FileOf(node), defaultPreserveWhitespaces)
      template == extractTemplate(component, decl.value)
  IN  IF ~decl.ok THEN [outcome |-> decl.code, template |-> NoTemplate, cache |-> cache]
      ELSE IF ~template.ok
      THEN [outcome |-> template.code, template |-> NoTemplate, cache |-> cache]
      ELSE [ outcome |-> "template", template |-> template.value,
             cache |-> [cache EXCEPT ![node] = template.value] ]

\* what resourceLoader.preload does: returns a promise, returns undefined, or
\* throws
PreloadResults == {"promise", "undefined", "throws"}

\* preloadAndParseTemplate up to its return: the outcome ("pending": the
\* promise chained on the preload; "null": a promise resolved with null;
\* "template": a promise resolved with the template; else the error thrown)
preloadAndParseTemplateStoresEarly(cache, node, component, defaultPreserveWhitespaces, preloaded) ==
  IF has(component, "templateUrl")
  THEN IF component.templateUrl = "wrong type"
       THEN [outcome |-> "VALUE_HAS_WRONG_TYPE", template |-> NoTemplate, cache |-> cache]
       ELSE IF ~resolve(component.templateUrl, FileOf(node)).ok \/ preloaded = "throws"
       THEN [ outcome |-> "COMPONENT_RESOURCE_NOT_FOUND", template |-> NoTemplate,
              cache |-> cache ]
       ELSE [parseExtractAndCache(cache, node, component, defaultPreserveWhitespaces)
               EXCEPT !.outcome = IF preloaded = "promise" THEN "pending" ELSE "null",
                      !.template = NoTemplate]
  ELSE parseExtractAndCache(cache, node, component, defaultPreserveWhitespaces)
preloadAndParseTemplate(cache, node, component, defaultPreserveWhitespaces, preloaded) ==
  IF has(component, "templateUrl")
  THEN IF component.templateUrl = "wrong type"
       THEN [outcome |-> "VALUE_HAS_WRONG_TYPE", template |-> NoTemplate, cache |-> cache]
       ELSE IF ~resolve(component.templateUrl, FileOf(node)).ok \/ preloaded = "throws"
       THEN [ outcome |-> "COMPONENT_RESOURCE_NOT_FOUND", template |-> NoTemplate,
              cache |-> cache ]
       ELSE IF preloaded = "promise"
       THEN [outcome |-> "pending", template |-> NoTemplate, cache |-> cache]
       ELSE [outcome |-> "null", template |-> NoTemplate, cache |-> cache]
  ELSE parseExtractAndCache(cache, node, component, defaultPreserveWhitespaces)

NoPreload ==
  [ state |-> "none", node |-> "none",
    component |-> [ preserveWhitespaces |-> "absent", interpolation |-> "absent",
                    templateUrl |-> "absent", template |-> "absent" ] ]

\* the last template call: cached is what the cache held for the node before,
\* othersKept that no other node's entry changed
TplRecord(op, node, component, preloaded, outcome, template, cacheAfter) ==
  [ op |-> op, node |-> node, hasTemplateUrl |-> has(component, "templateUrl"),
    preloaded |-> preloaded,
    outcome |-> outcome, template |-> template,
    settled |-> preload.state,
    cached |-> preanalyzeTemplateCache[node],
    othersKept |-> \A n \in Nodes \ {node} : cacheAfter[n] = preanalyzeTemplateCache[n] ]

\* preloadAndParseTemplate is called for a class; one preload is outstanding
\* at a time
PreloadAndParseTemplate(node, component, preloaded) ==
  LET r == preloadAndParseTemplate(preanalyzeTemplateCache, node, component, FALSE, preloaded)
  IN  /\ preload.state = "none"
      /\ preanalyzeTemplateCache' = r.cache
      /\ preload' = IF r.outcome = "pending"
                    THEN [state |-> "pending", node |-> node, component |-> component]
                    ELSE NoPreload
      /\ tplCall' = TplRecord("preload", node, component, preloaded, r.outcome, r.template, r.cache)
      /\ UNCHANGED <<sigVars, ctxVars, graphVars, viewVars, ngVars>>

\* the promise returned by resourceLoader.preload is fulfilled
PreloadFulfilled ==
  /\ preload.state = "pending"
  /\ preload' = [preload EXCEPT !.state = "fulfilled"]
  /\ UNCHANGED <<preanalyzeTemplateCache, tplCall>>
  /\ UNCHANGED <<sigVars, ctxVars, graphVars, viewVars, ngVars>>

\* the promise returned by resourceLoader.preload is rejected: the then
\* callback never runs
PreloadRejected ==
  /\ preload.state = "pending"
  /\ preload' = NoPreload
  /\ tplCall' = TplRecord("rejected", preload.node, preload.component, "promise", "rejected",
                          NoTemplate, preanalyzeTemplateCache)
  /\ UNCHANGED preanalyzeTemplateCache
  /\ UNCHANGED <<sigVars, ctxVars, graphVars, viewVars, ngVars>>

\* the callback chained with then() on the fulfilled preload promise
ThenCallback ==
  LET r == parseExtractAndCache(preanalyzeTemplateCache, preload.node,
                                preload.component, FALSE)
  IN  /\ preload.state = "fulfilled"
      /\ preanalyzeTemplateCache' = r.cache
      /\ preload' = NoPreload
      /\ tplCall' = TplRecord("then", preload.node, preload.component, "promise", r.outcome,
                              r.template, r.cache)
      /\ UNCHANGED <<sigVars, ctxVars, graphVars, viewVars, ngVars>>

\* parseTemplateDeclaration is called on its own
ParseTemplateDeclaration(component, containingFile, defaultPreserveWhitespaces) ==
  /\ tplCall' =
       [ op |-> "parse", component |-> component, containingFile |-> containingFile,
         result |-> parseTemplateDeclaration(component, containingFile,
                                             defaultPreserveWhitespaces) ]
  /\ UNCHANGED <<preanalyzeTemplateCache, preload>>
  /\ UNCHANGED <<sigVars, ctxVars, graphVars, viewVars, ngVars>>

NoTplCall == [op |-> "none"]

InitTpl ==
  /\ preanalyzeTemplateCache = [n \in Nodes |-> NoTemplate]
  /\ preload = NoPreload
  /\ tplCall = NoTplCall

NextParse ==
  \E component \in Components, node \in Nodes, d \in BOOLEAN :
    ParseTemplateDeclaration(component, FileOf(node), d)

NextPreload ==
  \/ \E node \in Nodes, component \in Components, preloaded \in PreloadResults :
       PreloadAndParseTemplate(node, component, preloaded)
  \/ PreloadFulfilled
  \/ PreloadRejected
  \/ ThenCallback

Init == InitSignal /\ InitCtx /\ InitGraph /\ InitViews /\ InitNg /\ InitTpl

\* the signal, with the injection context left alone
SpecSignal == Init /\ [][NextSignal]_vars

\* the injection context, with one signal that is left alone
InitOneSignal == Init /\ value = [id |-> "o1", data |-> 0] /\ equal = "default"

SpecCtx == InitOneSignal /\ [][NextCtx]_vars

\* the reactive graph; writes are made outside every computation, numbers are
\* compared by value, no post-set hook is installed
InitWithGraph ==
  /\ InitSignal /\ InitCtx /\ InitViews /\ InitNg /\ InitTpl
  /\ value = [id |-> "o1", data |-> 0] /\ equal = "deep"
  /\ graph \in {NewGraph(live, va, vb) :
                  live \in Programs, va \in 0..MaxSig, vb \in 0..MaxSig}
  /\ graphCall = NoGraphCall

SpecGraph == InitWithGraph /\ [][NextGraph]_vars

\* the dehydrated views of two containers, everything else left alone
InitWithViews ==
  /\ InitSignal /\ InitCtx /\ InitGraph /\ InitLocatedViews /\ InitNg /\ InitTpl
  /\ value = [id |-> "o1", data |-> 0] /\ equal = "default"

SpecViews == InitWithViews /\ [][NextViews]_vars

\* the NgClass directive of one element, everything else left alone
InitDirective == Init /\ value = [id |-> "o1", data |-> 0] /\ equal = "default"

SpecNg == InitDirective /\ [][NextNg]_vars

\* parseTemplateDeclaration on every component
InitParse == Init /\ value = [id |-> "o1", data |-> 0] /\ equal = "default"

SpecParse == InitParse /\ [][NextParse]_vars

\* the pre-analysis of component templates
InitPreload == Init /\ value = [id |-> "o1", data |-> 0] /\ equal = "default"

SpecPreload == InitPreload /\ [][NextPreload]_vars


\* ------------------------------------------------------------------ claims
WriteOps == {"set", "update", "mutate"}

\* producerUpdatesAllowed as it was when the last call was made
AllowedIn(pre) ==
  pre.activeConsumer = None \/ consumerAllowSignalWrites(pre.activeConsumer)

\* how often the last call ran producerMayHaveChanged
NotifyCount(trace) == Cardinality({i \in DOMAIN trace : trace[i].ev = "notify"})

\* the machine state the last call started from
PreMachine(pre) ==
  [ value |-> pre.value, valueVersion |-> pre.valueVersion,
    dependents |-> pre.dependents, dirty |-> pre.dirty,
    scheduled |-> pre.scheduled,
    outcome |-> "ok", trace |-> <<>>, rerun |-> {}, fnCalls |-> 0,
    result |-> NoValue ]

\* the last call left the node as it found it and told no dependent
Untouched ==
  /\ value = lastCall.pre.value
  /\ valueVersion = lastCall.pre.valueVersion
  /\ NotifyCount(lastCall.trace) = 0
  /\ dirty = lastCall.pre.dirty
  /\ scheduled = lastCall.pre.scheduled
  /\ lastCall.rerun = {}

\* C1: a set(v) made while writes are allowed and with equal(current, v) true
\* leaves value and version as they were and notifies no dependent.
C1_EqualityShortCircuit ==
  ( /\ lastCall.op = "set"
    /\ AllowedIn(lastCall.pre)
    /\ equalFn(lastCall.pre.value, lastCall.newValue) )
  => (Untouched /\ lastCall.outcome = "ok")

\* C1 witness: a set of a distinct but equal object on a signal with a dependent
C1_Witness ==
  /\ lastCall.op = "set"
  /\ AllowedIn(lastCall.pre)
  /\ equalFn(lastCall.pre.value, lastCall.newValue)
  /\ lastCall.newValue # lastCall.pre.value
  /\ lastCall.pre.dependents # {}

\* C2: a set(v) made while writes are allowed and with equal(current, v) false
\* stores v, increments the version by exactly one and calls
\* producerMayHaveChanged exactly once.
C2_EffectiveSet ==
  ( /\ lastCall.op = "set"
    /\ AllowedIn(lastCall.pre)
    /\ ~equalFn(lastCall.pre.value, lastCall.newValue) )
  => /\ value = lastCall.newValue
     /\ valueVersion = lastCall.pre.valueVersion + 1
     /\ NotifyCount(lastCall.trace) = 1
     /\ lastCall.outcome = "ok"

C2_Witness ==
  /\ lastCall.op = "set"
  /\ AllowedIn(lastCall.pre)
  /\ ~equalFn(lastCall.pre.value, lastCall.newValue)
  /\ lastCall.pre.dependents = Consumers
  /\ lastCall.pre.valueVersion > 0

\* C3: set, update and mutate called while producer updates are not allowed
\* fail with the invalid-write error, leave value and version as they were and
\* notify no dependent.
C3_InvalidWrite ==
  (lastCall.op \in WriteOps /\ ~AllowedIn(lastCall.pre))
  => (lastCall.outcome = "invalidWrite" /\ Untouched)

C3_Witness ==
  /\ lastCall.op = "mutate"
  /\ lastCall.fn = "bump"
  /\ ~AllowedIn(lastCall.pre)
  /\ lastCall.outcome = "invalidWrite"
  /\ lastCall.pre.dependents # {}

\* C4: update(fn) leaves the node as set(fn(current)) would have from the same
\* state: same value, version, marks on the dependents, notifications and
\* outcome; an updater that throws leaves the node untouched either way.
C4_UpdateIsSet ==
  lastCall.op = "update" =>
    IF lastCall.fn = "throw"
    THEN Untouched /\ lastCall.outcome # "ok"
    ELSE LET r == set(PreMachine(lastCall.pre),
                      applyUpdater(lastCall.fn, lastCall.pre.value))
         IN  /\ value = r.value
             /\ valueVersion = r.valueVersion
             /\ dependents = r.dependents
             /\ dirty = r.dirty
             /\ scheduled = r.scheduled
             /\ lastCall.trace = r.trace
             /\ lastCall.rerun = r.rerun
             /\ lastCall.outcome = r.outcome

\* C4 witness: the no-op case, an updater whose result is equal to the current
\* value, on a signal with a dependent
C4_Witness ==
  /\ lastCall.op = "update"
  /\ lastCall.fn # "throw"
  /\ AllowedIn(lastCall.pre)
  /\ equalFn(lastCall.pre.value, applyUpdater(lastCall.fn, lastCall.pre.value))
  /\ lastCall.pre.dependents # {}

\* C5: a mutate made while writes are allowed, whose mutator returns,
\* increments the version by one and notifies the dependents, whether or not
\* the mutated value is equal to the old one.
C5_MutateAlwaysNotifies ==
  ( /\ lastCall.op = "mutate"
    /\ AllowedIn(lastCall.pre)
    /\ lastCall.fn # "throw" )
  => /\ valueVersion = lastCall.pre.valueVersion + 1
     /\ NotifyCount(lastCall.trace) = 1
     /\ lastCall.trace[1].ev = "notify"
     /\ (lastCall.pre.dependents \cap Computeds) \subseteq lastCall.trace[1].dirty
     /\ (lastCall.pre.dependents \cap Effects) \subseteq lastCall.trace[1].scheduled
     /\ value = applyMutator(lastCall.fn, lastCall.pre.value)

\* C5 witness: a mutate whose result is equal to the old value
C5_Witness ==
  /\ lastCall.op = "mutate"
  /\ AllowedIn(lastCall.pre)
  /\ lastCall.fn # "throw"
  /\ equalFn(lastCall.pre.value, value)
  /\ lastCall.pre.dependents # {}
  /\ lastCall.pre.dirty = {}

\* C6: no call lowers the version, and every call that changes the value
\* (every effective set or update, every mutate that ran) raises it.
C6_VersionMonotonic ==
  lastCall.op # "none" =>
    /\ valueVersion >= lastCall.pre.valueVersion
    /\ value # lastCall.pre.value => valueVersion > lastCall.pre.valueVersion
    /\ ( /\ lastCall.op \in {"set", "update"}
         /\ lastCall.outcome = "ok"
         /\ ~equalFn(lastCall.pre.value,
                     IF lastCall.op = "set" THEN lastCall.newValue
                     ELSE applyUpdater(lastCall.fn, lastCall.pre.value)) )
       => valueVersion > lastCall.pre.valueVersion
    /\ (lastCall.op = "mutate" /\ lastCall.outcome = "ok")
       => valueVersion > lastCall.pre.valueVersion

C6_Witness ==
  /\ lastCall.op = "set"
  /\ value # lastCall.pre.value
  /\ valueVersion = MaxVersion
  /\ readonlySignal # "undefined"

\* C7: a read returns the value stored by the most recent effective write (the
\* initial value if there was none), changes neither value nor version, and
\* registers no edge when no consumer is computing.
C7_ReadReturnsLastWrite ==
  lastCall.op = "read" =>
    /\ lastCall.result = lastEffective
    /\ value = lastCall.pre.value
    /\ valueVersion = lastCall.pre.valueVersion
    /\ lastCall.pre.activeConsumer = None => dependents = lastCall.pre.dependents

C7_Witness ==
  /\ lastCall.op = "read"
  /\ lastCall.pre.activeConsumer = None
  /\ valueVersion > 1
  /\ dependents # Consumers

\* C8: a read through the view asReadonly returned gives what a read through
\* the original handle gives, the value of the latest effective write, and
\* inside an active consumer it registers the edge on the original node.
C8_ReadonlyIsSameSignal ==
  lastCall.op = "readView" =>
    /\ lastCall.result = signal(PreMachine(lastCall.pre)).result
    /\ lastCall.result = lastEffective
    /\ dependents = signal(PreMachine(lastCall.pre)).dependents
    /\ lastCall.pre.activeConsumer # None => lastCall.pre.activeConsumer \in dependents

C8_Witness ==
  /\ lastCall.op = "readView"
  /\ valueVersion > 0
  /\ lastCall.pre.activeConsumer # None
  /\ lastCall.pre.activeConsumer \notin lastCall.pre.dependents

\* the last call was a write that took effect
EffectiveWrite ==
  /\ lastCall.op \in WriteOps
  /\ valueVersion > lastCall.pre.valueVersion

C10_ContextRestored ==
  ctxCall.op \in {"exit", "run"} =>
    /\ currentInjector = ctxCall.entry.injector
    /\ injectImpl = ctxCall.entry.impl

\* C10 witness: fn threw after both slots had been overwritten, and both slots
\* were set before the call
C10_Witness ==
  /\ ctxCall.op = "exit"
  /\ ctxCall.how = "throw"
  /\ ctxCall.entry.injector # "undefined"
  /\ ctxCall.entry.impl # "undefined"
  /\ ctxCall.before.injector \notin {ctxCall.injector, ctxCall.entry.injector}
  /\ ctxCall.before.impl # "undefined"


EmptySlots == [injector |-> "undefined", impl |-> "undefined"]

\* C11: when fn starts inside runInInjectionContext(injector, fn) the current
\* injector is the given one and the inject override is cleared, so
\* assertInInjectionContext succeeds and a lookup resolves through the given
\* injector, not through an override or injector installed before the call.
C11_FnRunsInGivenContext ==
  /\ ctxCall.op = "enter" =>
       /\ currentInjector = ctxCall.injector
       /\ injectImpl = "undefined"
       /\ assertInInjectionContext = "ok"
       /\ inject = ctxCall.injector
  /\ (ctxCall.op = "inject" /\ ctxCall.how = "firstInFn") =>
       ctxCall.outcome = ctxCall.injector

\* C11 witness: a lookup made first thing in fn, in a call made while an
\* override and another injector were installed
C11_Witness ==
  /\ ctxCall.op = "inject"
  /\ ctxCall.how = "firstInFn"
  /\ frames # <<>>
  /\ Head(frames).entry.impl # "undefined"
  /\ Head(frames).entry.injector \notin {"undefined", ctxCall.injector}

\* C12: assertInInjectionContext fails with the missing-injection-context error
\* exactly when neither a current injector nor an inject override is installed,
\* and it changes neither slot.
C12_AssertFailsIffNoContext ==
  ctxCall.op = "assert" =>
    /\ (ctxCall.outcome = "MISSING_INJECTION_CONTEXT")
         <=> (ctxCall.before = EmptySlots)
    /\ ctxCall.outcome \in {"MISSING_INJECTION_CONTEXT", "ok"}
    /\ Slots = ctxCall.before

\* C12 witness: the assertion made outside every call, both slots empty
C12_Witness ==
  /\ ctxCall.op = "assert"
  /\ frames = <<>>
  /\ ctxCall.before = EmptySlots
  /\ ctxCall.outcome = "MISSING_INJECTION_CONTEXT"

\* C13: a callback registered inside fn and invoked after that
\* runInInjectionContext call has exited, the call having been made with no
\* context installed, fails assertInInjectionContext.
C13_ContextTornDown ==
  ( /\ ctxCall.op = "callback"
    /\ ctxCall.how = "afterOwnExit"
    /\ ctxCall.entry = EmptySlots )
  => ctxCall.outcome = "MISSING_INJECTION_CONTEXT"

C13_Witness ==
  /\ ctxCall.op = "callback"
  /\ ctxCall.how = "afterOwnExit"
  /\ ctxCall.entry = EmptySlots
  /\ frames = <<>>
  /\ ctxCall.injector = "i2"


\* ---- claims about the reactive graph
GPre == graphCall.pre
GOp(op) == graphCall.op = op

\* C14: glitch-freedom. Whatever writes to a and b came before it, a read of
\* a computed that depends on both (c, on a through m and on b directly)
\* returns its function of the current a and the current b; so does m of a.
C14_GlitchFree ==
  (GOp("read") /\ graphCall.outcome = "ok") =>
    /\ graphCall.node = "m" =>
         graphCall.result = Fn("m", <<graph.val["a"]>>)
    /\ graphCall.node = "c" =>
         graphCall.result =
           Fn("c", <<Fn("m", <<graph.val["a"]>>), graph.val["b"]>>)

\* c had a cached value, then both a (its parity) and b were written, then c
\* was read
C14_Witness ==
  /\ GOp("read") /\ graphCall.node = "c" /\ graphCall.outcome = "ok"
  /\ GPre.cache["c"] # NoCache
  /\ GPre.deps["c"]["b"] # GPre.ver["b"]
  /\ GPre.deps["m"]["a"] # GPre.ver["a"]
  /\ GPre.cache["m"] # graph.cache["m"]

RecomputedEqual(k) ==
  /\ graph.inv[k] > 0
  /\ k \notin graph.errored
  /\ GPre.cache[k] # NoCache
  /\ graph.cache[k] = GPre.cache[k]

\* dependent d of k had a value computed from the current version of k, and
\* nothing else it read has changed
OnlyStaleThrough(d, k) ==
  /\ GPre.cache[d] # NoCache
  /\ d \notin GPre.errored
  /\ GPre.deps[d][k] = GPre.ver[k]
  /\ \A p \in GProducers \ {k} :
       GPre.deps[d][p] # NoEdge => (p \in GSignals /\ GPre.deps[d][p] = GPre.ver[p])

\* C16: value-stability suppression. A computed that recomputes to an equal
\* result keeps its version, and none of its dependents is marked dirty,
\* scheduled or recomputed because of it.
C16_EqualResultSuppressed ==
  (GOp("read") \/ GOp("run")) =>
    \A k \in GComputeds : RecomputedEqual(k) =>
      /\ graph.ver[k] = GPre.ver[k]
      /\ (graph.dirty \cap GPre.cons[k]) \subseteq GPre.dirty
      /\ (graph.scheduled \cap GPre.cons[k]) \subseteq GPre.scheduled
      /\ GOp("run") => graph.scheduled \cap GPre.cons[k] = {}
      /\ \A d \in GPre.cons[k] \cap GComputeds :
           OnlyStaleThrough(d, k) => graph.inv[d] = 0

\* a went from one even number to another; the read of c recomputed m to the
\* same parity, c was not recomputed and the effect on m was not scheduled
C16_Witness ==
  /\ GOp("read") /\ graphCall.node = "c"
  /\ RecomputedEqual("m")
  /\ graph.inv["c"] = 0
  /\ "e" \in GPre.cons["m"]
  /\ "e" \notin graph.scheduled

\* C17: cycle detection. A read of x (x reads y, y reads x) ends with the
\* cyclic-dependency error; each function was entered at most once and no
\* version or cache changed.
C17_CycleSignalled ==
  (GOp("read") /\ graphCall.node \in {"x", "y"}) =>
    /\ graphCall.outcome = "CyclicDependency"
    /\ graph.inv["x"] <= 1 /\ graph.inv["y"] <= 1
    /\ graph.ver = GPre.ver /\ graph.cache = GPre.cache

C17_Witness ==
  /\ GOp("read") /\ graphCall.node = "x"
  /\ graphCall.outcome = "CyclicDependency"
  /\ graph.inv["x"] = 1 /\ graph.inv["y"] = 1

\* C18: disposal. A second disposal changes nothing and raises nothing; once
\* disposed, the effect is in no dependent set, is never scheduled and never
\* run, whatever is written to the producers it used to read.
C18_DisposalIdempotentAndFinal ==
  /\ (GOp("dispose") /\ GPre.disposed) =>
       /\ graphCall.outcome = "ok"
       /\ graph = [GPre EXCEPT !.inv = NoCounts]
  /\ graph.disposed =>
       /\ "e" \notin graph.scheduled
       /\ \A p \in GProducers : "e" \notin graph.cons[p]
       /\ ~GOp("run")
  /\ (GOp("set") /\ GPre.disposed /\ graphCall.node \in GPre.formerDeps) =>
       /\ graph.disposed
       /\ "e" \notin graph.scheduled

\* the effect had run and read b, was disposed, and then b was changed
C18_Witness ==
  /\ GOp("set") /\ graphCall.node = "b"
  /\ GPre.disposed /\ "b" \in GPre.formerDeps
  /\ graph.ver["b"] # GPre.ver["b"]

\* C19: computation failure. A read of t fails exactly when its function
\* throws on the current b; then the version and cache of t are unchanged;
\* and a read of t that finds it errored invokes the function again.
C19_FailureRetried ==
  (GOp("read") /\ graphCall.node = "t") =>
    /\ graphCall.outcome = "ComputationFailure" <=> Throws("t", <<graph.val["b"]>>)
    /\ graphCall.outcome = "ComputationFailure" =>
         /\ graph.ver["t"] = GPre.ver["t"]
         /\ graph.cache["t"] = GPre.cache["t"]
    /\ "t" \in GPre.errored => graph.inv["t"] = 1
    /\ graphCall.outcome = "ok" => graphCall.result = graph.val["b"]

\* t had a value, failed, and was read again with nothing written in between
C19_Witness ==
  /\ GOp("read") /\ graphCall.node = "t"
  /\ "t" \in GPre.errored /\ GPre.cache["t"] # NoCache
  /\ GPre.clean["t"] # NoCache
  /\ graphCall.outcome = "ComputationFailure"
  /\ graph.inv["t"] = 1

\* C20: before enableFindMatchingDehydratedViewImpl has been called,
\* findMatchingDehydratedView returns null for every container and template id
\* and leaves the dehydrated views of every container as they were.
C20_NullUntilEnabled ==
  (viewCall.op = "find" /\ ~viewCall.enabled) =>
    /\ viewCall.result = NoView
    /\ dehydratedViews = viewCall.pre

\* C20 witness: a lookup, before hydration is enabled, of the template id the
\* first view of the container has
C20_Witness ==
  /\ viewCall.op = "find"
  /\ ~viewCall.enabled
  /\ viewCall.pre[viewCall.container].defined
  /\ Len(viewCall.pre[viewCall.container].views) = MaxViews
  /\ viewCall.pre[viewCall.container].views[1].template = viewCall.template

\* the dehydrated views of the container of the last lookup, before and after
PreViews == viewCall.pre[viewCall.container].views
PostViews == dehydratedViews[viewCall.container].views
OtherContainersKept ==
  \A k \in Containers \ {viewCall.container} : dehydratedViews[k] = viewCall.pre[k]

\* C21: with hydration enabled, a lookup of the template id of the first
\* dehydrated view returns that first view and removes it, the remaining views
\* keep their order; so the views left in a container are always a run of
\* consecutive original positions that ends at the last one (consumption is
\* front to back).
C21_FirstViewShifted ==
  /\ (viewCall.op = "find" /\ viewCall.enabled /\ PreViews # <<>>
        /\ PreViews[1].template = viewCall.template) =>
       /\ viewCall.result = PreViews[1]
       /\ PostViews = Tail(PreViews)
       /\ OtherContainersKept
  /\ \A k \in Containers : \A i \in 1..Len(dehydratedViews[k].views) :
       /\ i > 1 => dehydratedViews[k].views[i].node =
                     dehydratedViews[k].views[i - 1].node + 1
       /\ (viewCall.op = "find" /\ viewCall.container = k
            /\ viewCall.result # NoView) =>
            dehydratedViews[k].views[1].node = viewCall.result.node + 1

\* C21 witness: the second view of a container has just been taken, after the
\* first
C21_Witness ==
  /\ viewCall.op = "find" /\ viewCall.enabled
  /\ Len(PreViews) >= 1
  /\ viewCall.result = PreViews[1]
  /\ viewCall.result.node = 2

\* C22: with hydration enabled, a lookup of a non-empty template id that the
\* first dehydrated view does not have removes every dehydrated view of the
\* container and returns null; a lookup with a null or empty id, or in a
\* container without views (such as one emptied by a mismatch), returns null
\* and removes nothing.
C22_MismatchRemovesAll ==
  (viewCall.op = "find" /\ viewCall.enabled) =>
    /\ (PreViews # <<>> /\ viewCall.template \in TemplateIds
          /\ PreViews[1].template # viewCall.template) =>
         /\ viewCall.result = NoView
         /\ PostViews = <<>>
         /\ OtherContainersKept
    /\ (PreViews = <<>> \/ viewCall.template \notin TemplateIds) =>
         /\ viewCall.result = NoView
         /\ dehydratedViews = viewCall.pre

\* C22 witness: a mismatch in a container that held MaxViews views, the second
\* of which had the requested id
C22_Witness ==
  /\ viewCall.op = "find" /\ viewCall.enabled
  /\ Len(PreViews) = MaxViews
  /\ PreViews[1].template # viewCall.template
  /\ PreViews[MaxViews].template = viewCall.template
  /\ PostViews = <<>>

\* ---- claims about NgClass
Range(seq) == {seq[i] : i \in 1..Len(seq)}
ClassesOf(k) == Range(ToggledClasses(k))
\* the keys of the inputs as ngDoCheck iterates them
BoundEntries == IF rawClass.kind = "null" THEN {} ELSE Range(rawClass.entries)
BoundKeys == Range(initialClasses) \cup {e.klass : e \in BoundEntries}
OnClasses ==
  UNION {ClassesOf(k) : k \in Range(initialClasses)}
  \cup UNION {ClassesOf(e.klass) : e \in {e \in BoundEntries : e.on}}
OffClasses == UNION {ClassesOf(e.klass) : e \in {e \in BoundEntries : ~e.on}}
Called(op, name) ==
  \E i \in 1..Len(ngCall.calls) : ngCall.calls[i] = [op |-> op, klass |-> name]

\* C23: an ngDoCheck that finds [class] and [ngClass] with the same content as
\* at the previous ngDoCheck makes no addClass and no removeClass call.
C23_NoUnneededDomCalls ==
  (ngCall.op = "ngDoCheck" /\ ngCall.same) => ngCall.calls = <<>>

\* C24: after ngDoCheck, when no class is bound both on and off, every class
\* of a truthy key (or of a listed string) of [ngClass] is on the element and
\* no class of a falsy key is.
C24_TruthyKeysAdded ==
  (ngCall.op = "ngDoCheck" /\ OnClasses \cap OffClasses = {}) =>
    \A e \in BoundEntries :
      /\ e.on => ClassesOf(e.klass) \subseteq classList
      /\ ~e.on => ClassesOf(e.klass) \cap classList = {}

\* C29: after ngDoCheck the state map holds exactly the keys of the current
\* bindings, once each, with changed and touched false; a key of the previous
\* state map that is no longer bound is gone, and removeClass was called for
\* each of its classes if it was enabled.
C29_StateMapFollowsBindings ==
  ngCall.op = "ngDoCheck" =>
    /\ {stateMap[i].klass : i \in 1..Len(stateMap)} = BoundKeys
    /\ \A i \in 1..Len(stateMap), j \in 1..Len(stateMap) :
         stateMap[i].klass = stateMap[j].klass => i = j
    /\ \A i \in 1..Len(stateMap) : ~stateMap[i].changed /\ ~stateMap[i].touched
    /\ \A e \in Range(ngCall.pre.stateMap) :
         (e.klass \notin BoundKeys /\ e.enabled) =>
           \A name \in ClassesOf(e.klass) : Called("removeClass", name)

\* C29 witness: the key "a b" was enabled and is no longer bound; both of its
\* classes were removed while "a" stays bound
C29_Witness ==
  /\ ngCall.op = "ngDoCheck"
  /\ \E e \in Range(ngCall.pre.stateMap) : e.klass = "a b" /\ e.enabled
  /\ BoundKeys = {"a"}
  /\ Called("removeClass", "a") /\ Called("removeClass", "b")
  /\ Len(stateMap) = 1

\* ---- claims about component templates
TplErrors ==
  {"VALUE_HAS_WRONG_TYPE", "COMPONENT_RESOURCE_NOT_FOUND", "COMPONENT_MISSING_TEMPLATE"}
ParsedComponent == tplCall.component
ParseResult == tplCall.result
ExternalDeclaration ==
  /\ ParseResult.ok
  /\ ~ParseResult.value.isInline
  /\ ParseResult.value.templateUrl = ParsedComponent.templateUrl
  /\ ParseResult.value.resolvedTemplateUrl =
       resolve(ParsedComponent.templateUrl, tplCall.containingFile).value
InlineDeclaration ==
  /\ ParseResult.ok
  /\ ParseResult.value.isInline
  /\ ParseResult.value.templateUrl = tplCall.containingFile
  /\ ParseResult.value.resolvedTemplateUrl = tplCall.containingFile
Fails(code) == ~ParseResult.ok /\ ParseResult.code = code
ResolveThrows ==
  /\ ParsedComponent.templateUrl # "wrong type"
  /\ ~resolve(ParsedComponent.templateUrl, tplCall.containingFile).ok

\* C25 as stated: with templateUrl the result is an external declaration, or
\* COMPONENT_RESOURCE_NOT_FOUND when resolving it throws; with template only,
\* an inline declaration whose two urls are the containing file; with neither,
\* COMPONENT_MISSING_TEMPLATE.
C25_AsStated ==
  tplCall.op = "parse" =>
    IF has(ParsedComponent, "templateUrl")
    THEN IF ResolveThrows THEN Fails("COMPONENT_RESOURCE_NOT_FOUND")
         ELSE ExternalDeclaration
    ELSE IF has(ParsedComponent, "template") THEN InlineDeclaration
    ELSE Fails("COMPONENT_MISSING_TEMPLATE")

\* C25: parseTemplateDeclaration fails with VALUE_HAS_WRONG_TYPE when
\* preserveWhitespaces is not a boolean, interpolation is not a pair of
\* strings, or templateUrl is not a string; otherwise its result is as
\* stated above.
C25_DeclarationByFields ==
  tplCall.op = "parse" =>
    IF \/ ParsedComponent.preserveWhitespaces = "wrong type"
       \/ ParsedComponent.interpolation = "wrong type"
       \/ ParsedComponent.templateUrl = "wrong type"
    THEN Fails("VALUE_HAS_WRONG_TYPE")
    ELSE IF has(ParsedComponent, "templateUrl")
    THEN IF ResolveThrows THEN Fails("COMPONENT_RESOURCE_NOT_FOUND")
         ELSE ExternalDeclaration
    ELSE IF has(ParsedComponent, "template") THEN InlineDeclaration
    ELSE Fails("COMPONENT_MISSING_TEMPLATE")

\* C25 witness: a component with both templateUrl and template got an external
\* declaration
C25_Witness ==
  /\ tplCall.op = "parse"
  /\ has(ParsedComponent, "templateUrl") /\ has(ParsedComponent, "template")
  /\ ExternalDeclaration

\* C30: preloadAndParseTemplate with a templateUrl returns without having
\* stored anything, and resolves to null when preload returned undefined; the
\* cache entry of the node stays as it was until the callback chained on the
\* fulfilled preload promise stores the parsed template. Without a templateUrl
\* the template it resolves to is in the cache when it returns.
C30_CachedOnlyAfterPreload ==
  /\ (tplCall.op = "preload" /\ tplCall.hasTemplateUrl) =>
       /\ preanalyzeTemplateCache[tplCall.node] = tplCall.cached
       /\ tplCall.othersKept
       /\ tplCall.outcome \in {"pending", "null"} \cup TplErrors
       /\ (tplCall.preloaded = "undefined" /\ tplCall.outcome \notin TplErrors) =>
            (tplCall.outcome = "null" /\ preload.state = "none")
       /\ tplCall.outcome = "pending" <=> preload.state \in {"pending", "fulfilled"}
  /\ (tplCall.op = "preload" /\ ~tplCall.hasTemplateUrl) =>
       /\ tplCall.outcome \in {"template"} \cup TplErrors
       /\ tplCall.othersKept
       /\ IF tplCall.outcome = "template"
          THEN /\ tplCall.template # NoTemplate
               /\ preanalyzeTemplateCache[tplCall.node] = tplCall.template
          ELSE preanalyzeTemplateCache[tplCall.node] = tplCall.cached
  /\ tplCall.op = "then" =>
       /\ tplCall.settled = "fulfilled"
       /\ tplCall.othersKept
       /\ IF tplCall.outcome = "template"
          THEN /\ tplCall.template # NoTemplate
               /\ preanalyzeTemplateCache[tplCall.node] = tplCall.template
          ELSE preanalyzeTemplateCache[tplCall.node] = tplCall.cached
  /\ tplCall.op = "rejected" =>
       /\ preanalyzeTemplateCache[tplCall.node] = tplCall.cached
       /\ tplCall.othersKept

\* C30 witness: the then callback stored an external template for a node that
\* had none cached
C30_Witness ==
  /\ tplCall.op = "then" /\ tplCall.outcome = "template"
  /\ tplCall.cached = NoTemplate
  /\ ~preanalyzeTemplateCache[tplCall.node].declaration.isInline
  /\ preanalyzeTemplateCache[tplCall.node].content = "<external>"

\* ---- claims about the post-set hook
\* the value the last write call was to store
WrittenValue ==
  CASE lastCall.op = "set"    -> lastCall.newValue
    [] lastCall.op = "update" -> applyUpdater(lastCall.fn, lastCall.pre.value)
    [] OTHER                  -> applyMutator(lastCall.fn, lastCall.pre.value)

\* the last call was a write that had to take effect: allowed, its function
\* returned, and for set and update the new value is not equal to the old one
MustTakeEffect ==
  /\ lastCall.op \in WriteOps
  /\ AllowedIn(lastCall.pre)
  /\ lastCall.fn # "throw"
  /\ (lastCall.op = "mutate" \/ ~equalFn(lastCall.pre.value, WrittenValue))

HookCount(trace) == Cardinality({i \in DOMAIN trace : trace[i].ev = "hook"})

\* C26: whenever a write notifies the dependents or runs the post-set hook,
\* the signal already holds the new value and the incremented version: a read
\* made from the notification or from the hook returns the new value.
C26_NoPartialWrite ==
  /\ lastCall.op \in WriteOps =>
       \A i \in DOMAIN lastCall.trace :
          /\ lastCall.trace[i].value = WrittenValue
          /\ lastCall.trace[i].valueVersion = lastCall.pre.valueVersion + 1
          /\ lastCall.trace[i].value = value
          /\ lastCall.trace[i].valueVersion = valueVersion
  /\ MustTakeEffect => NotifyCount(lastCall.trace) = 1

\* C26 witness: a set that replaced the value, with dependents to notify and a
\* hook installed, so that both moments occurred
C26_Witness ==
  /\ lastCall.op = "set"
  /\ lastCall.pre.value.data # lastCall.newValue.data
  /\ lastCall.pre.dependents = Consumers
  /\ Len(lastCall.trace) = 2
  /\ lastCall.trace[1].ev = "notify"
  /\ lastCall.trace[2].ev = "hook"
  /\ lastCall.trace[2].value = lastCall.newValue

\* C27: an installed post-set hook is called exactly once by a set or update
\* that takes effect and by a mutate whose mutator returns, after the
\* dependents have been notified; no other write calls it (a no-op by equality,
\* a rejected write, a function that throws); setPostSignalSetFn installs its
\* argument and returns the hook that was installed before.
C27_HookOncePerEffectiveWrite ==
  /\ lastCall.op \in WriteOps =>
       IF MustTakeEffect /\ lastCall.pre.postSignalSetFn # "null"
       THEN /\ Len(lastCall.trace) = 2
            /\ lastCall.trace[1].ev = "notify"
            /\ lastCall.trace[2].ev = "hook"
            /\ lastCall.trace[2].dirty = lastCall.trace[1].dirty
            /\ lastCall.trace[2].scheduled = lastCall.trace[1].scheduled
       ELSE HookCount(lastCall.trace) = 0
  /\ lastCall.op \notin WriteOps => HookCount(lastCall.trace) = 0
  /\ lastCall.op = "setPostSignalSetFn" =>
       /\ lastCall.ret = lastCall.pre.postSignalSetFn
       /\ postSignalSetFn = lastCall.fn

\* C27 witness: a mutate that left the value equal to the old one, the hook
\* installed and an effect depending on the signal
C27_Witness ==
  /\ lastCall.op = "mutate"
  /\ lastCall.fn = "touch"
  /\ lastCall.pre.postSignalSetFn = "flushEffects"
  /\ Effects \subseteq lastCall.pre.dependents
  /\ HookCount(lastCall.trace) = 1
  /\ lastCall.rerun = Effects

\* ---- claims about nested injection contexts
\* C28: nested runInInjectionContext calls follow a stack discipline. Every
\* active call has saved the resolver that was current when it was made; when
\* an inner call starts the current resolver is its injector; when it exits,
\* by return or by throw, the current resolver is again the one that was
\* current when it was made (the outer call's injector, when the outer
\* function left the slot alone), and the outer call is still active with its
\* own saved resolver; when the outer call exits the resolver is the one that
\* was current before it.
C28_StackDiscipline ==
  /\ \A i \in DOMAIN frames :
        /\ frames[i].prevInjector = frames[i].entry.injector
        /\ frames[i].previousInjectImplementation = frames[i].entry.impl
  /\ (ctxCall.op = "enter" /\ Len(frames) = 2) =>
        /\ currentInjector = frames[1].injector
        /\ frames[1].injector = ctxCall.injector
        /\ frames[1].entry = ctxCall.before
  /\ (ctxCall.op = "exit" /\ Len(frames) = 1) =>
        /\ currentInjector = ctxCall.entry.injector
        /\ injectImpl = ctxCall.entry.impl
        /\ (ctxCall.entry.injector = frames[1].injector
              => currentInjector = frames[1].injector)
  /\ (ctxCall.op = "exit" /\ frames = <<>>) =>
        /\ currentInjector = ctxCall.entry.injector
        /\ injectImpl = ctxCall.entry.impl

\* C28 witness: the inner call, made with i2 inside a call made with i1 from
\* outside every context, has thrown: i1 is current again and the outer call
\* is still active
C28_Witness ==
  /\ ctxCall.op = "exit" /\ ctxCall.how = "throw"
  /\ ctxCall.injector = "i2"
  /\ Len(frames) = 1
  /\ frames[1].injector = "i1"
  /\ frames[1].prevInjector = "undefined"
  /\ currentInjector = "i1"

\* ---- claims about the function passed to update and mutate
FnOps == {"update", "mutate"}

\* C31: an update or mutate rejected as an invalid write never invokes the
\* function it was given, and the held value, payload included, is what it was.
C31_RejectedNeverInvokesFn ==
  (lastCall.op \in FnOps /\ ~AllowedIn(lastCall.pre)) =>
    /\ lastCall.outcome = "invalidWrite"
    /\ lastCall.fnCalls = 0
    /\ value = lastCall.pre.value

\* C31 witness: a mutate whose mutator would change the payload, rejected
\* inside a computed
C31_Witness ==
  /\ lastCall.op = "mutate"
  /\ lastCall.fn = "bump"
  /\ lastCall.pre.activeConsumer \in Computeds
  /\ lastCall.outcome = "invalidWrite"

\* C32: update and mutate add no edge: the dependents after the call are the
\* dependents before it, also when the call is made inside an active consumer
\* that permits writes; a read made inside an active consumer adds the edge.
C32_WritesAddNoEdge ==
  /\ lastCall.op \in FnOps => dependents = lastCall.pre.dependents
  /\ (lastCall.op = "read" /\ lastCall.pre.activeConsumer # None) =>
       dependents = lastCall.pre.dependents \cup {lastCall.pre.activeConsumer}

\* C32 witness: an update that took effect, made inside an effect that had no
\* edge to the signal
C32_Witness ==
  /\ lastCall.op = "update"
  /\ lastCall.pre.activeConsumer \in Effects
  /\ lastCall.pre.activeConsumer \notin lastCall.pre.dependents
  /\ lastCall.fnCalls = 1
  /\ valueVersion = lastCall.pre.valueVersion + 1

\* C33: when the updater or the mutator of an allowed update or mutate throws,
\* the call ends with that error, the version is what it was, no dependent is
\* notified, marked or scheduled and the post-set hook does not run.
C33_ThrowingFnChangesNothing ==
  (lastCall.op \in FnOps /\ AllowedIn(lastCall.pre) /\ lastCall.fn = "throw") =>
    /\ lastCall.outcome = "threw"
    /\ lastCall.fnCalls = 1
    /\ valueVersion = lastCall.pre.valueVersion
    /\ lastCall.trace = <<>>
    /\ dirty = lastCall.pre.dirty
    /\ scheduled = lastCall.pre.scheduled
    /\ lastCall.rerun = {}

\* C33 witness: a mutator threw on a signal with a computed and an effect
\* depending on it, neither marked, and the hook installed
C33_Witness ==
  /\ lastCall.op = "mutate"
  /\ lastCall.fn = "throw"
  /\ lastCall.outcome = "threw"
  /\ lastCall.pre.dependents = Consumers
  /\ lastCall.pre.dirty = {}
  /\ lastCall.pre.scheduled = {}
  /\ lastCall.pre.postSignalSetFn = "flushEffects"

====
